---- MODULE Spec2Model ----
(***************************************************************************)
(* Model of imq-cli: the `update-version` git flow                         *)
(* (src/src/service/update-version.ts), the Travis adapter                 *)
(* (src/lib/travis.ts, enableBuilds / trySyncBuilds) and the `service      *)
(* create` handler pipeline (src/lib/travis.ts, second half).              *)
(***************************************************************************)
EXTENDS Integers, Sequences, FiniteSets, TLC

(***************************************************************************)
(* Bounds                                                                  *)
(***************************************************************************)
MaxFolders == 2
MaxHooks == 2
MaxMaxRetries == 3

(***************************************************************************)
(* update-version: state                                                   *)
(***************************************************************************)
VARIABLES
    folders,      \* result of getServicesFolders: sequence of service paths
    uvPc,         \* position of handler: "start", "flow", "done", "caught"
    idx,          \* index of the folder walkThroughFolders is at
    step,         \* next step of execGitFlow for folders[idx] (1..4)
    log,          \* log[i]: sequence of [step, status] spawned for folders[i]
    doneLog       \* indices of folders for which 'Done!' was logged

uvVars == <<folders, uvPc, idx, step, log, doneLog>>

\* Travis adapter: state
VARIABLES
    tEntry,       \* the exported function called: "enableBuilds" or "trySyncBuilds"
    tPc,          \* position: "auth", "sync", "hooks", "put", "returned", "threw"
    owner,        \* enableBuilds argument
    repo,         \* enableBuilds argument
    hooks,        \* hook list held by Travis
    hooks0,       \* the hook list as it was when enableBuilds was called
    hook,         \* result of hooks.find(...): index into hooks, 0 = undefined
    syncArgs,     \* arguments of the outermost trySyncBuilds call
    retry,        \* `retry` of the current trySyncBuilds call
    maxRetries,   \* `maxRetries` of the current trySyncBuilds call
    delay,        \* `delay` of the current trySyncBuilds call
    attempts,     \* outcome of every travis.users.sync.post() so far
    sleeps,       \* argument of every sleep() call so far
    syncRet,      \* value returned by trySyncBuilds: "none", "true", "false"
    puts,         \* body of every travis.hooks(id).put() so far
    ebRet         \* outcome of enableBuilds: "none", "true", "false", "threw"

tVars == <<tEntry, tPc, owner, repo, hooks, hooks0, hook, syncArgs, retry, maxRetries,
           delay, attempts, sleeps, syncRet, puts, ebRet>>

\* `service create`: state
VARIABLES
    cPc,                 \* position of handler: "build", "git", "docker",
                         \* "dockerTag", "dockerSecrets", "enable", "install",
                         \* "commit", "catch", "end"
    argvPath,            \* argv.path
    argvG,               \* argv.g: "true", "false", "undef"
    argvD,               \* argv.D: "true", "false", "undef"
    argvU,               \* argv.u: GitHub namespace, "" when not given
    cfgUseGit,           \* config.useGit: "true", "false", "undef"
    cfgUseDocker,        \* config.useDocker: "true", "false", "undef"
    cfgToken,            \* config.gitHubAuthToken, "" when not set
    gitRepoInitialized,  \* module-level flag
    dockerNs,            \* buildDockerCi: const dockerNs
    dockerize,           \* buildDockerCi: const dockerize
    stageStatus,         \* per stage: "none", "ok", "threw", "skipped"
    trace,               \* stages in the order they were started
    calls,               \* external calls in the order they were made
    prompts,             \* answers given to the confirm prompts
    enableResult,        \* how enableBuilds ended: "none", "true", "false", "throw"
    remoteFailure,       \* the remote call that failed and was not caught
    out                  \* messages printed

cVars == <<cPc, argvPath, argvG, argvD, argvU, cfgUseGit, cfgUseDocker,
           cfgToken, gitRepoInitialized, dockerNs, dockerize, stageStatus,
           trace, calls, prompts, enableResult, remoteFailure, out>>

\* getServicesFolders: state
VARIABLES
    dRoot,        \* the directory at the root path (what loading it gives)
    dEntries,     \* readdirSync(path): the directories below the root path
    dFolders,     \* the array getServicesFolders returns
    dCwd,         \* process.cwd(): 0 = the root path, i = entry i, -1 = ROOT_DIRECTORY
    dPc           \* "call", "returned"

dVars == <<dFolders, dRoot, dEntries, dCwd, dPc>>

\* compileTemplateFile: state
VARIABLES
    tplText,      \* the text argument, a sequence of characters
    tplTags,      \* the tags argument: <<[name, value], ...>> in Object.keys order
    tplOnce,      \* compileTemplateFile(text, tags)
    tplTwice,     \* compileTemplateFile(compileTemplateFile(text, tags), tags)
    tplPc         \* "call", "once", "twice"

tplVars == <<tplText, tplTags, tplOnce, tplTwice, tplPc>>

\* compileTemplate: state
VARIABLES
    fsTree,       \* the directory at path: name -> file, directory or nothing
    fsTree0,      \* history: fsTree when compileTemplate was called
    wTags,        \* the tags argument
    wPending      \* paths still to visit, in the order of the forEach calls

wVars == <<fsTree, fsTree0, wTags, wPending>>

\* updateLicenseText: state
VARIABLES
    ltText,       \* the text argument, a sequence of symbols
    ltValues,     \* author, email, serviceName and homepage arguments
    ltResult,     \* the text returned
    ltPc          \* "call", "returned"

ltVars == <<ltText, ltValues, ltResult, ltPc>>

\* ensureLicense: state
VARIABLES
    elArgs,       \* the license, author and email arguments as passed
    elConfig,     \* config.license ("undef": typeof is 'undefined')
    elLicense,    \* the local license
    elPrompted,   \* history: licensingOptions() was awaited
    elResult,     \* the local text, header, name and tag
    elFile,       \* the LICENSE file below path
    elPc          \* "call", "prompt", "resolve", "returned", "threw"

elVars == <<elArgs, elConfig, elLicense, elPrompted, elResult, elFile, elPc>>

\* semverCompare: state
VARIABLES
    svA, svB, svC,  \* three version strings, parsed
    svResult,       \* semverCompare of the pairs (a,b), (b,a), (b,c), (a,c)
    svPc            \* "call", "returned"

svVars == <<svA, svB, svC, svResult, svPc>>

\* getNodeVersions / nodeVersion: state
VARIABLES
    nodeVersions, \* the module-level cache: [defined, list]
    nvFetched,    \* history: the index last fetched, as the server sent it
    nvRequests,   \* history: number of requests to nodejs.org
    nvSets,       \* history: assignments to the cache made by non-forced calls
    nvCalls,      \* history: number of calls made
    nvCall,       \* the call in progress or last returned: [fn, force, tag]
    nvVersions,   \* what getNodeVersions resolved with
    nvReturn,     \* what nodeVersion returned: <<>> is '', else <<version>>
    nvPc          \* "ready", "fetching", "resolved", "rejected", "returned",
                  \* "failed", "thrown"

nvVars == <<nodeVersions, nvFetched, nvRequests, nvSets, nvCalls, nvCall,
            nvVersions, nvReturn, nvPc>>

\* toTravisTags: state
VARIABLES
    ttTags,       \* the tags argument: [kind, list]
    ttResult,     \* the array returned
    ttPc          \* "call", "returned"

ttVars == <<ttTags, ttResult, ttPc>>

\* completions on: state
VARIABLES
    PROGRAM,      \* yargs.argv.$0, a sequence of characters
    rcFiles,      \* ~/.bashrc and ~/.zshrc: [exists, text]
    coRuns,       \* history: runs of the handler per rc file
    coOut         \* what the last run wrote: "added", "exists", "error"

coVars == <<PROGRAM, rcFiles, coRuns, coOut>>

\* State of the library functions, which no command handler above touches.
libVars ==
    <<dVars, tplVars, wVars, ltVars, elVars, svVars, nvVars, ttVars, coVars>>

cmdVars == <<uvVars, tVars, cVars>>

\* What the actions of one part leave alone: every other part.
dRest == <<cmdVars, tplVars, wVars, ltVars, elVars, svVars, nvVars, ttVars,
    coVars>>
tplRest == <<cmdVars, dVars, wVars, ltVars, elVars, svVars, nvVars, ttVars,
    coVars>>
wRest == <<cmdVars, dVars, tplVars, ltVars, elVars, svVars, nvVars, ttVars,
    coVars>>
ltRest == <<cmdVars, dVars, tplVars, wVars, elVars, svVars, nvVars, ttVars,
    coVars>>
elRest == <<cmdVars, dVars, tplVars, wVars, ltVars, svVars, nvVars, ttVars,
    coVars>>
svRest == <<cmdVars, dVars, tplVars, wVars, ltVars, elVars, nvVars, ttVars,
    coVars>>
nvRest == <<cmdVars, dVars, tplVars, wVars, ltVars, elVars, svVars, ttVars,
    coVars>>
ttRest == <<cmdVars, dVars, tplVars, wVars, ltVars, elVars, svVars, nvVars,
    coVars>>
coRest == <<cmdVars, dVars, tplVars, wVars, ltVars, elVars, svVars, nvVars,
    ttVars>>

vars == <<cmdVars, libVars>>

\* `null` exit status of SpawnSyncReturns (killed by a signal / not spawned).
\* Real exit statuses are 0..255, so -1 cannot collide with one of them.
Null == 0 - 1

CHECKOUT == 1
PULL == 2
BUMP_VERSION == 3
PUSH == 4

Steps == {CHECKOUT, PULL, BUMP_VERSION, PUSH}

\* What spawnSync(..., {stdio: 'pipe'}) can return:
\*   the process ran and exited:        status n,    no error, stderr Buffer
\*   the process was killed by a signal: status null, no error, stderr Buffer
\*   killed on ENOBUFS / timeout:        status null, error,    stderr Buffer
\*   the process could not be spawned:   status null, error,    stderr null
SpawnResponses ==
    {[status |-> 0,    error |-> FALSE, stderr |-> TRUE],
     [status |-> 1,    error |-> FALSE, stderr |-> TRUE],
     [status |-> Null, error |-> FALSE, stderr |-> TRUE],
     [status |-> Null, error |-> TRUE,  stderr |-> TRUE],
     [status |-> Null, error |-> TRUE,  stderr |-> FALSE]}

\* JavaScript truthiness of `number | null`
TruthyStatus(s) == s # 0 /\ s # Null

\* Mutant of handleSpawnResponse: reports every response as a success.
HandleSpawnResponseAlwaysZero(response) ==
    [throws |-> FALSE, ret |-> 0]

\* handleSpawnResponse: logs stderr when the status is not 0 (or there is an
\* error and a stderr), which throws a TypeError when stderr is null;
\* otherwise returns response.status.
HandleSpawnResponse(response) ==
    IF (response.status # 0 \/ (response.error /\ response.stderr))
       /\ ~response.stderr
    THEN [throws |-> TRUE, ret |-> Null]
    ELSE [throws |-> FALSE, ret |-> response.status]

\* The lists getServicesFolders can return: distinct paths in directory
\* listing order (path i stands for the i-th discovered service directory).
FolderLists == {[i \in 1..n |-> i] : n \in 0..MaxFolders}

UVInit ==
    /\ folders \in FolderLists
    /\ uvPc = "start"
    /\ idx = 1
    /\ step = CHECKOUT
    /\ log = [i \in DOMAIN folders |-> <<>>]
    /\ doneLog = {}

\* handler: getServicesFolders, then walkThroughFolders over the result.
UVHandler ==
    /\ uvPc = "start"
    /\ uvPc' = IF Len(folders) = 0 THEN "done" ELSE "flow"
    /\ UNCHANGED <<folders, idx, step, log, doneLog, tVars, cVars, libVars>>

\* One step of execGitFlow for folders[idx]: spawn the command, pass the
\* response through handleSpawnResponse, and either return from execGitFlow
\* (walkThroughFolders moves to the next folder), go on with the next step,
\* or propagate the exception to the try/catch of handler.
ExecStep(s, response) ==
    LET r == HandleSpawnResponse(response)
        last == idx = Len(folders)
    IN  /\ uvPc = "flow"
        /\ step = s
        /\ log' = [log EXCEPT ![idx] =
                      Append(@, [step |-> s, status |-> response.status])]
        /\ IF r.throws
           THEN /\ uvPc' = "caught"
                /\ UNCHANGED <<idx, step, doneLog>>
           ELSE IF TruthyStatus(r.ret) \/ s = PUSH
           THEN /\ idx' = idx + 1
                /\ step' = CHECKOUT
                /\ uvPc' = IF last THEN "done" ELSE "flow"
                /\ doneLog' = IF TruthyStatus(r.ret) THEN doneLog
                              ELSE doneLog \cup {idx}
           ELSE /\ step' = s + 1
                /\ UNCHANGED <<idx, uvPc, doneLog>>
        /\ UNCHANGED <<folders, tVars, cVars, libVars>>

GitCheckout == \E response \in SpawnResponses : ExecStep(CHECKOUT, response)

GitPull == \E response \in SpawnResponses : ExecStep(PULL, response)

ChangeVersion ==
    \E response \in SpawnResponses : ExecStep(BUMP_VERSION, response)

GitPush == \E response \in SpawnResponses : ExecStep(PUSH, response)

(***************************************************************************)
(* Travis adapter: trySyncBuilds / enableBuilds                            *)
(***************************************************************************)

DefaultMaxRetries == 3
DefaultDelay == 2000

Owners == {"imqueue", "other"}
Repos == {"svc", "lib"}
Delays == {500, DefaultDelay}

Hooks == [owner_name : Owners, name : Repos, active : BOOLEAN]

\* Hook lists Travis can hold: a repository (owner/name) has one hook.
HookLists ==
    {h \in UNION {[1..n -> Hooks] : n \in 0..MaxHooks} :
        \A i, j \in DOMAIN h :
            i # j => (h[i].owner_name # h[j].owner_name \/ h[i].name # h[j].name)}

\* Mutant of the hook lookup: compares the repository name only.
FindHookByName(hs, o, r) ==
    IF \E i \in DOMAIN hs : hs[i].name = r
    THEN CHOOSE i \in DOMAIN hs :
            /\ hs[i].name = r
            /\ \A j \in 1..(i - 1) : ~(hs[j].name = r)
    ELSE 0

\* hooks.find(hook => hook.owner_name === owner && hook.name === repo):
\* index of the first match, 0 when there is none (undefined). The index
\* stands for hook.id.
FindHook(hs, o, r) ==
    IF \E i \in DOMAIN hs : hs[i].owner_name = o /\ hs[i].name = r
    THEN CHOOSE i \in DOMAIN hs :
            /\ hs[i].owner_name = o /\ hs[i].name = r
            /\ \A j \in 1..(i - 1) : ~(hs[j].owner_name = o /\ hs[j].name = r)
    ELSE 0

\* Where control goes when the outermost trySyncBuilds returns.
AfterSync == IF tEntry = "enableBuilds" THEN "hooks" ELSE "returned"

TravisInit ==
    /\ tEntry \in {"enableBuilds", "trySyncBuilds"}
    /\ IF tEntry = "enableBuilds"
       THEN /\ owner \in Owners
            /\ repo \in Repos
            /\ hooks \in HookLists
            /\ tPc = "auth"
            /\ syncArgs = [retry |-> 0, maxRetries |-> DefaultMaxRetries,
                           delay |-> DefaultDelay]
       ELSE /\ owner = "imqueue"
            /\ repo = "svc"
            /\ hooks = <<>>
            /\ tPc = "sync"
            /\ syncArgs \in [retry : {0}, maxRetries : 0..MaxMaxRetries,
                             delay : Delays]
    /\ hooks0 = hooks
    /\ retry = syncArgs.retry
    /\ maxRetries = syncArgs.maxRetries
    /\ delay = syncArgs.delay
    /\ hook = 0
    /\ attempts = <<>>
    /\ sleeps = <<>>
    /\ syncRet = "none"
    /\ puts = <<>>
    /\ ebRet = "none"

\* enableBuilds: await travis.authenticate({ github_token })
Authenticate ==
    /\ tPc = "auth"
    /\ \E ok \in BOOLEAN :
        IF ok THEN /\ tPc' = "sync"
                   /\ ebRet' = ebRet
              ELSE /\ tPc' = "threw"
                   /\ ebRet' = "threw"
    /\ UNCHANGED <<tEntry, owner, repo, hooks, hooks0, hook, syncArgs, retry,
                   maxRetries, delay, attempts, sleeps, syncRet, puts,
                   uvVars, cVars, libVars>>

\* trySyncBuilds: `if (retry < maxRetries)`
CanRetry(r, m) == r < m

\* The delay the recursive call trySyncBuilds(travis, ++retry, maxRetries)
\* runs with: the argument is omitted, so the default applies.
RecursiveDelay(d) == DefaultDelay

\* One call of trySyncBuilds: post the sync and sleep; on an exception sleep
\* and call trySyncBuilds again while retry < maxRetries, else return false.
TrySyncBuilds ==
    /\ tPc = "sync"
    /\ \E ok \in BOOLEAN :
        /\ attempts' = Append(attempts, ok)
        /\ IF ok
           THEN /\ sleeps' = Append(sleeps, delay)
                /\ syncRet' = "true"
                /\ tPc' = AfterSync
                /\ UNCHANGED <<retry, delay>>
           ELSE IF CanRetry(retry, maxRetries)
           THEN /\ sleeps' = Append(sleeps, delay)
                /\ retry' = retry + 1
                /\ delay' = RecursiveDelay(delay)
                /\ UNCHANGED <<syncRet, tPc>>
           ELSE /\ syncRet' = "false"
                /\ tPc' = AfterSync
                /\ UNCHANGED <<sleeps, retry, delay>>
    /\ UNCHANGED <<tEntry, owner, repo, hooks, hooks0, hook, syncArgs, maxRetries,
                   puts, ebRet,
                   uvVars, cVars, libVars>>

\* enableBuilds: (await travis.hooks.get()).hooks.find(...), then the
\* `!hook` / `hook.active` branches.
HooksGet ==
    /\ tPc = "hooks"
    /\ \E ok \in BOOLEAN :
        IF ~ok
        THEN /\ tPc' = "threw"
             /\ ebRet' = "threw"
             /\ hook' = hook
        ELSE LET h == FindHook(hooks, owner, repo)
             IN  /\ hook' = h
                 /\ IF h = 0
                    THEN tPc' = "returned" /\ ebRet' = "false"
                    ELSE IF hooks[h].active
                    THEN tPc' = "returned" /\ ebRet' = "true"
                    ELSE tPc' = "put" /\ ebRet' = ebRet
    /\ UNCHANGED <<tEntry, owner, repo, hooks, hooks0, syncArgs, retry, maxRetries,
                   delay, attempts, sleeps, syncRet, puts,
                   uvVars, cVars, libVars>>

\* enableBuilds: await travis.hooks(hook.id).put({hook: {id, active: true}})
HooksPut ==
    /\ tPc = "put"
    /\ puts' = Append(puts, [id |-> hook, active |-> TRUE])
    /\ \E ok \in BOOLEAN :
        IF ok
        THEN /\ hooks' = [hooks EXCEPT ![hook].active = TRUE]
             /\ tPc' = "returned"
             /\ ebRet' = "true"
        ELSE /\ hooks' = hooks
             /\ tPc' = "threw"
             /\ ebRet' = "threw"
    /\ UNCHANGED <<tEntry, owner, repo, hooks0, hook, syncArgs, retry, maxRetries,
                   delay, attempts, sleeps, syncRet,
                   uvVars, cVars, libVars>>

(***************************************************************************)
(* `service create`: handler pipeline                                      *)
(***************************************************************************)

Stages == <<"build", "git", "docker", "install", "commit">>
StageSet == {Stages[i] : i \in DOMAIN Stages}
StageIndex(st) == CHOOSE i \in DOMAIN Stages : Stages[i] = st

Tri == {"true", "false", "undef"}
\* JavaScript truthiness of `boolean | undefined`
Truthy(t) == t = "true"
ToTri(b) == IF b THEN "true" ELSE "false"

Paths == {"", ".", "./", "svc"}
Namespaces == {"", "imqueue"}
Tokens == {"", "token"}
\* isNamespace / isGuthubToken of the values above
IsNamespace(ns) == ns # ""
IsGithubToken(t) == t # ""

CreateInit ==
    /\ cPc = "build"
    /\ argvPath \in Paths
    /\ argvG \in Tri
    /\ argvD \in Tri
    /\ argvU \in Namespaces
    /\ cfgUseGit \in Tri
    /\ cfgUseDocker \in Tri
    /\ cfgToken \in Tokens
    /\ gitRepoInitialized = FALSE
    /\ dockerNs = ""
    /\ dockerize = FALSE
    /\ stageStatus = [st \in StageSet |-> "none"]
    /\ trace = <<>>
    /\ calls = <<>>
    /\ prompts = [p \in {"useGit", "useDocker"} |-> "none"]
    /\ enableResult = "none"
    /\ remoteFailure = "none"
    /\ out = {}

\* Mutant of the try/catch of handler: an exception does not stop the
\* sequence of stages.
OnStageEndIgnoreThrow(threw, next) == next

\* handler: the stages are awaited inside one try block, so a stage that
\* throws transfers control to the catch block, and a stage that returns is
\* followed by the next statement.
OnStageEnd(threw, next) == IF threw THEN "catch" ELSE next

\* Bookkeeping of a stage that ends: its status and the next position.
EndStage(st, threw, next) ==
    /\ stageStatus' = [stageStatus EXCEPT ![st] = IF threw THEN "threw" ELSE "ok"]
    /\ cPc' = OnStageEnd(threw, next)

\* buildFromTemplate: ensureTemplate, cpr, makeService (buildTags,
\* compileTemplate, createServiceFile); any of them may throw.
BuildFromTemplate ==
    /\ cPc = "build"
    /\ trace' = Append(trace, "build")
    /\ \E result \in {"ok", "noTemplate", "makeServiceThrows"} :
        /\ calls' = IF result = "noTemplate" THEN calls
                     ELSE Append(calls, "cpr")
        /\ EndStage("build", result # "ok", "git")
    /\ UNCHANGED <<argvPath, argvG, argvD, argvU, cfgUseGit, cfgUseDocker,
                   cfgToken, gitRepoInitialized, dockerNs, dockerize,
                   prompts, out,
                   enableResult,
                   uvVars, tVars, libVars, remoteFailure>>

\* createGitRepo: const useGit = argv.g || config.useGit
UseGit(g, cfg) == Truthy(g) \/ Truthy(cfg)

\* createGitRepo: `!useGit && typeof config.useGit === 'undefined'`
AsksUseGit(g, cfg) == ~UseGit(g, cfg) /\ cfg = "undef"

\* Mutant of createGitRepo: the flag is set whether or not createRepository
\* succeeded.
AfterCreateRepositoryAlways(initialized, created) == TRUE

\* await createRepository(...); gitRepoInitialized = true: the assignment is
\* reached only when createRepository did not throw.
AfterCreateRepository(initialized, created) == initialized \/ created

\* createGitRepo: resolve the use-git flag (prompting when it has to),
\* ensureGitRepo, the auth token, then createRepository and the
\* gitRepoInitialized flag.
CreateGitRepo ==
    /\ cPc = "git"
    /\ trace' = Append(trace, "git")
    /\ \E answerUseGit \in BOOLEAN, answerNs \in Namespaces,
          argvT \in Tokens, answerToken \in Tokens, created \in BOOLEAN :
        LET asks == AsksUseGit(argvG, cfgUseGit)
            declined == asks /\ ~answerUseGit
            asksNs == ~IsNamespace(argvU)
            nsThrows == asksNs /\ ~IsNamespace(answerNs)
            token == IF argvT # "" THEN argvT ELSE cfgToken
            asksToken == ~IsGithubToken(token)
            tokenThrows == asksToken /\ ~IsGithubToken(answerToken)
        IN  /\ prompts' = IF asks
                          THEN [prompts EXCEPT !["useGit"] = ToTri(answerUseGit)]
                          ELSE prompts
            /\ IF declined
               THEN /\ argvD' = "false"
                    /\ cfgUseDocker' = "false"
                    /\ EndStage("git", FALSE, "docker")
                    /\ UNCHANGED <<argvU, cfgToken, gitRepoInitialized, calls,
                                   remoteFailure>>
               ELSE IF nsThrows
               THEN /\ EndStage("git", TRUE, "docker")
                    /\ UNCHANGED <<argvD, cfgUseDocker, argvU, cfgToken,
                                   gitRepoInitialized, calls, remoteFailure>>
               ELSE IF tokenThrows
               THEN /\ argvU' = IF asksNs THEN answerNs ELSE argvU
                    /\ EndStage("git", TRUE, "docker")
                    /\ UNCHANGED <<argvD, cfgUseDocker, cfgToken,
                                   gitRepoInitialized, calls, remoteFailure>>
               ELSE /\ argvU' = IF asksNs THEN answerNs ELSE argvU
                    /\ cfgToken' = IF asksToken THEN answerToken ELSE cfgToken
                    /\ calls' = Append(calls, "createRepository")
                    /\ gitRepoInitialized' =
                            AfterCreateRepository(gitRepoInitialized, created)
                    /\ remoteFailure' = IF created THEN remoteFailure
                                         ELSE "createRepository"
                    /\ EndStage("git", ~created, "docker")
                    /\ UNCHANGED <<argvD, cfgUseDocker>>
    /\ UNCHANGED <<argvPath, argvG, cfgUseGit, dockerNs, dockerize, out,
                   enableResult,
                   uvVars, tVars, libVars>>

DockerNamespaces == {"", "imqdock"}

\* Mutant of the dockerize decision: the -D / useDocker flag is not consulted.
DockerizeIgnoringFlag(initialized, ns, d, cfg) == initialized /\ ns # ""

\* buildDockerCi: const dockerize = !!(gitRepoInitialized && dockerNs &&
\* (argv.D || config.useDocker))
Dockerize(initialized, ns, d, cfg) ==
    initialized /\ ns # "" /\ (Truthy(d) \/ Truthy(cfg))

\* buildDockerCi up to the dockerize branch: ensureDockerNamespace (resolve
\* the dockerize flag and the DockerHub namespace, prompting when it has
\* to), the dockerize decision, ensureTravisTags, and stripDockerization
\* when the service is not dockerized.
EnsureDockerNamespace ==
    /\ cPc = "docker"
    /\ trace' = Append(trace, "docker")
    /\ \E argvN \in DockerNamespaces, answerUseDocker \in BOOLEAN,
          answerNs \in DockerNamespaces :
        LET flag0 == Truthy(argvD) \/ Truthy(cfgUseDocker)
            asks == ~flag0 /\ cfgUseDocker = "undef"
            flag == IF asks THEN answerUseDocker ELSE flag0
            d == IF asks THEN ToTri(answerUseDocker) ELSE argvD
            cfg == IF asks THEN ToTri(answerUseDocker) ELSE cfgUseDocker
            asksNs == flag /\ ~IsNamespace(argvN)
            nsThrows == asksNs /\ ~IsNamespace(answerNs)
            ns == IF asksNs THEN answerNs ELSE argvN
            dz == Dockerize(gitRepoInitialized, ns, d, cfg)
        IN  /\ prompts' = IF asks
                          THEN [prompts EXCEPT !["useDocker"] =
                                   ToTri(answerUseDocker)]
                          ELSE prompts
            /\ argvD' = d
            /\ cfgUseDocker' = cfg
            /\ IF nsThrows
               THEN /\ EndStage("docker", TRUE, "install")
                    /\ UNCHANGED <<dockerNs, dockerize, calls>>
               ELSE /\ dockerNs' = ns
                    /\ dockerize' = dz
                    /\ calls' = IF dz THEN calls
                                ELSE Append(calls, "stripDockerization")
                    /\ cPc' = IF dz THEN "dockerTag" ELSE "enable"
                    /\ UNCHANGED stageStatus
    /\ UNCHANGED <<argvPath, argvG, argvU, cfgUseGit, cfgToken,
                   gitRepoInitialized, out,
                   enableResult,
                   uvVars, tVars, libVars, remoteFailure>>

\* ensureDockerTag: argv.L when given, else nodeVersion(tags[0]), which may
\* reject (catalog request failed) or resolve to '' (TypeError).
EnsureDockerTag ==
    /\ cPc = "dockerTag"
    /\ \E argvL \in BOOLEAN, version \in {"10.0.0", "", "rejected"} :
        IF argvL
        THEN /\ cPc' = "dockerSecrets"
             /\ UNCHANGED <<calls, stageStatus, remoteFailure>>
        ELSE /\ calls' = Append(calls, "nodeVersion")
             /\ IF version = "10.0.0"
                THEN /\ cPc' = "dockerSecrets"
                     /\ UNCHANGED <<stageStatus, remoteFailure>>
                ELSE /\ remoteFailure' = "nodeVersion"
                     /\ EndStage("docker", TRUE, "install")
    /\ UNCHANGED <<argvPath, argvG, argvD, argvU, cfgUseGit, cfgUseDocker,
                   cfgToken, gitRepoInitialized, dockerNs, dockerize, trace,
                   prompts, out,
                   enableResult,
                   uvVars, tVars, libVars>>

\* ensureDockerSecrets: owner and token checks, DockerHub credentials, then
\* travisEncrypt for the user and for the password.
EnsureDockerSecrets ==
    /\ cPc = "dockerSecrets"
    /\ \E credentials \in BOOLEAN, user \in BOOLEAN, pass \in BOOLEAN :
        IF argvU = "" \/ cfgToken = "" \/ ~credentials
        THEN /\ EndStage("docker", TRUE, "install")
             /\ UNCHANGED <<calls, remoteFailure>>
        ELSE IF ~user
        THEN /\ EndStage("docker", TRUE, "install")
             /\ calls' = Append(calls, "travisEncrypt")
             /\ remoteFailure' = "travisEncrypt"
        ELSE IF ~pass
        THEN /\ EndStage("docker", TRUE, "install")
             /\ calls' = calls \o <<"travisEncrypt", "travisEncrypt">>
             /\ remoteFailure' = "travisEncrypt"
        ELSE /\ cPc' = "enable"
             /\ calls' = calls \o <<"travisEncrypt", "travisEncrypt">>
             /\ UNCHANGED <<stageStatus, remoteFailure>>
    /\ UNCHANGED <<argvPath, argvG, argvD, argvU, cfgUseGit, cfgUseDocker,
                   cfgToken, gitRepoInitialized, dockerNs, dockerize, trace,
                   prompts, out,
                   enableResult,
                   uvVars, tVars, libVars>>

\* Mutant of the try/catch around enableBuilds: the exception propagates.
EnableBuildsUncaught(result) ==
    [threw |-> result = "throw", enabled |-> result = "true"]

\* buildDockerCi: let enabled = false; try { enabled = await enableBuilds() }
\* catch (err) { /* ignore */ }
EnableBuildsCaught(result) ==
    [threw |-> FALSE, enabled |-> result = "true"]

\* The rest of buildDockerCi: compileTemplate, enableBuilds under try/catch,
\* and the notice when builds were not enabled.
EnableBuilds ==
    /\ cPc = "enable"
    /\ \E result \in {"true", "false", "throw"} :
        LET r == EnableBuildsCaught(result)
        IN  /\ calls' = calls \o <<"compileTemplate", "enableBuilds">>
            /\ enableResult' = result
            /\ out' = IF ~r.threw /\ ~r.enabled THEN out \cup {"notice"} ELSE out
            /\ remoteFailure' = IF r.threw THEN "enableBuilds" ELSE remoteFailure
            /\ EndStage("docker", r.threw, "install")
    /\ UNCHANGED <<argvPath, argvG, argvD, argvU, cfgUseGit, cfgUseDocker,
                   cfgToken, gitRepoInitialized, dockerNs, dockerize, trace,
                   prompts,
                   uvVars, tVars, libVars>>

\* handler: if (!argv.noInstall) { await installPackages(argv); }
InstallPackages ==
    /\ cPc = "install"
    /\ \E noInstall \in BOOLEAN, ok \in BOOLEAN :
        IF noInstall
        THEN /\ stageStatus' = [stageStatus EXCEPT !["install"] = "skipped"]
             /\ cPc' = "commit"
             /\ UNCHANGED <<trace, calls>>
        ELSE /\ trace' = Append(trace, "install")
             /\ calls' = Append(calls, "npm")
             /\ EndStage("install", ~ok, "commit")
    /\ UNCHANGED <<argvPath, argvG, argvD, argvU, cfgUseGit, cfgUseDocker,
                   cfgToken, gitRepoInitialized, dockerNs, dockerize,
                   prompts, out,
                   enableResult,
                   uvVars, tVars, libVars, remoteFailure>>

\* handler: if (gitRepoInitialized) { await commit(argv); } followed by the
\* success message.
Commit ==
    /\ cPc = "commit"
    /\ \E ok \in BOOLEAN :
        IF ~gitRepoInitialized
        THEN /\ stageStatus' = [stageStatus EXCEPT !["commit"] = "skipped"]
             /\ cPc' = "end"
             /\ out' = out \cup {"success"}
             /\ UNCHANGED <<trace, calls>>
        ELSE /\ trace' = Append(trace, "commit")
             /\ calls' = Append(calls, "git")
             /\ EndStage("commit", ~ok, "end")
             /\ out' = IF OnStageEnd(~ok, "end") = "end"
                       THEN out \cup {"success"} ELSE out
    /\ UNCHANGED <<argvPath, argvG, argvD, argvU, cfgUseGit, cfgUseDocker,
                   cfgToken, gitRepoInitialized, dockerNs, dockerize,
                   prompts,
                   enableResult,
                   uvVars, tVars, libVars, remoteFailure>>

\* handler, catch block: argv.path && (argv.path !== '.' || argv.path !== './')
ShouldCleanup(path) == path # "" /\ (path # "." \/ path # "./")

\* handler, catch block: cleanup of the service directory, then printError.
Catch ==
    /\ cPc = "catch"
    /\ calls' = IF ShouldCleanup(argvPath) THEN Append(calls, "rmdir")
                ELSE calls
    /\ out' = out \cup {"error"}
    /\ cPc' = "end"
    /\ UNCHANGED <<argvPath, argvG, argvD, argvU, cfgUseGit, cfgUseDocker,
                   cfgToken, gitRepoInitialized, dockerNs, dockerize,
                   stageStatus, trace, prompts,
                   enableResult,
                   uvVars, tVars, libVars, remoteFailure>>

(***************************************************************************)
(* update-version: getServicesFolders / isFolderContainsService            *)
(***************************************************************************)
MaxEntries == 2

\* process.cwd() values: ROOT_DIRECTORY, the root path, or entry i (i >= 1)
RootDirectory == 0 - 1
RootPath == 0

\* What require(servicePath) exports, as far as isFolderContainsService
\* looks: per exported property, in Object.entries order, whether its name
\* includes 'Service' and whether its __proto__.name is BASE_SERVICE_NAME.
ExportLists ==
    {<<>>,
     <<[service |-> TRUE,  base |-> TRUE]>>,
     <<[service |-> TRUE,  base |-> FALSE]>>,
     <<[service |-> FALSE, base |-> TRUE]>>,
     <<[service |-> TRUE,  base |-> FALSE], [service |-> TRUE, base |-> TRUE]>>,
     <<[service |-> FALSE, base |-> TRUE],  [service |-> TRUE, base |-> TRUE]>>}

\* A path: not a directory (process.chdir throws), a directory that cannot
\* be required (require throws), or a directory with a module.
Directories ==
    {[kind |-> "notdir", exports |-> <<>>],
     [kind |-> "nomodule", exports |-> <<>>]}
    \cup [kind : {"module"}, exports : ExportLists]

\* The for-loop of isFolderContainsService over Object.entries(service):
\* index of the first property whose name includes 'Service', 0 if none.
FirstServiceExport(exports) ==
    IF \E i \in DOMAIN exports : exports[i].service
    THEN CHOOSE i \in DOMAIN exports :
            /\ exports[i].service
            /\ \A j \in 1..(i - 1) : ~exports[j].service
    ELSE 0

\* isFolderContainsService(servicePath): the value returned and the working
\* directory it leaves ("path": servicePath, "root": ROOT_DIRECTORY,
\* "same": unchanged because process.chdir threw).
IsFolderContainsService(dir) ==
    IF dir.kind = "notdir" THEN [ret |-> FALSE, cwd |-> "same"]
    ELSE IF dir.kind = "nomodule" THEN [ret |-> FALSE, cwd |-> "path"]
    ELSE LET i == FirstServiceExport(dir.exports)
         IN  IF i = 0 THEN [ret |-> FALSE, cwd |-> "root"]
             ELSE [ret |-> dir.exports[i].base, cwd |-> "path"]

\* The working directory after isFolderContainsService(path) returned r.
CwdAfter(cwd, path, r) ==
    IF r.cwd = "same" THEN cwd
    ELSE IF r.cwd = "root" THEN RootDirectory
    ELSE path

RECURSIVE TestEntries(_, _, _, _)
\* getServicesFolders, the for-loop over readdirSync(path) from entry i on:
\* the folders array and the working directory at the end of the loop.
TestEntries(entries, i, found, cwd) ==
    IF i > Len(entries) THEN [folders |-> found, cwd |-> cwd]
    ELSE LET r == IsFolderContainsService(entries[i])
         IN  TestEntries(entries, i + 1,
                         IF r.ret THEN Append(found, i) ELSE found,
                         CwdAfter(cwd, i, r))

\* Mutant of getServicesFolders: the subdirectories are tested also when the
\* root path is a service.
GetServicesFoldersNoElse(root, entries, cwd) ==
    LET r == IsFolderContainsService(root)
        c == CwdAfter(cwd, RootPath, r)
    IN  IF root.kind = "notdir" THEN [throws |-> TRUE, folders |-> <<>>, cwd |-> c]
        ELSE LET t == TestEntries(entries, 1,
                                  IF r.ret THEN <<RootPath>> ELSE <<>>, c)
             IN  [throws |-> FALSE, folders |-> t.folders, cwd |-> t.cwd]

\* getServicesFolders(path): the root path alone when it is a service,
\* else the entries of readdirSync(path) that are one (readdirSync throws
\* when the root path is not a directory).
GetServicesFolders(root, entries, cwd) ==
    LET r == IsFolderContainsService(root)
        c == CwdAfter(cwd, RootPath, r)
    IN  IF r.ret THEN [throws |-> FALSE, folders |-> <<RootPath>>, cwd |-> c]
        ELSE IF root.kind = "notdir"
        THEN [throws |-> TRUE, folders |-> <<>>, cwd |-> c]
        ELSE LET t == TestEntries(entries, 1, <<>>, c)
             IN  [throws |-> FALSE, folders |-> t.folders, cwd |-> t.cwd]

DiscoverInit ==
    /\ dRoot \in Directories
    /\ dEntries \in UNION {[1..n -> Directories] : n \in 0..MaxEntries}
    /\ dFolders = <<>>
    /\ dCwd = RootDirectory
    /\ dPc = "call"

\* handler: const folders = getServicesFolders(argv.path)
GetFolders ==
    /\ dPc = "call"
    /\ LET g == GetServicesFolders(dRoot, dEntries, dCwd)
       IN  /\ dFolders' = g.folders
           /\ dCwd' = g.cwd
           /\ dPc' = IF g.throws THEN "threw" ELSE "returned"
    /\ UNCHANGED <<dRoot, dEntries, dRest>>

(***************************************************************************)
(* create: compileTemplateFile                                             *)
(***************************************************************************)
MaxTextLen == 3
MaxTags == 2

\* Characters of a template text.
TextChars == {"%", "A", "B", "x"}

Texts == UNION {[1..n -> TextChars] : n \in 0..MaxTextLen}

\* Tag names (keys of the tags object); one is a prefix of another.
TagNames == {<<"A">>, <<"B">>, <<"A", "B">>}

\* Tag values: plain text, text that is a tag name, a lone '%', a token of
\* another tag, and the replacement patterns $& and $$ of String.prototype.replace.
TagValues == {<<"x">>, <<"B">>, <<"%">>, <<"%", "B">>, <<"$", "&">>, <<"$", "$">>}

TagLists ==
    {t \in UNION {[1..n -> [name : TagNames, value : TagValues]] : n \in 0..MaxTags} :
        \A i, j \in DOMAIN t : i # j => t[i].name # t[j].name}

\* text.substring(from - 1, to) in 1-based positions
Slice(text, from, to) == [k \in 1..(to - from + 1) |-> text[from + k - 1]]

\* The pattern occurs in the text at position i.
MatchesAt(text, pattern, i) ==
    /\ i + Len(pattern) - 1 <= Len(text)
    /\ \A k \in 1..Len(pattern) : text[i + k - 1] = pattern[k]

RECURSIVE GetSubstitution(_, _, _, _, _)
\* String.prototype.replace with a string as replacement: the text that is
\* put in place of one match ($$ is '$', $& the match, $` the text before
\* it, $' the text after it; there are no capture groups).
GetSubstitution(replacement, i, matched, before, after) ==
    IF i > Len(replacement) THEN <<>>
    ELSE IF replacement[i] = "$" /\ i < Len(replacement)
                /\ replacement[i + 1] \in {"$", "&", "`", "'"}
    THEN (CASE replacement[i + 1] = "$" -> <<"$">>
            [] replacement[i + 1] = "&" -> matched
            [] replacement[i + 1] = "`" -> before
            [] replacement[i + 1] = "'" -> after)
         \o GetSubstitution(replacement, i + 2, matched, before, after)
    ELSE <<replacement[i]>>
         \o GetSubstitution(replacement, i + 1, matched, before, after)

RECURSIVE ReplaceAll(_, _, _, _)
\* text.replace(new RegExp(pattern, 'g'), replacement) from position i on:
\* the matches are found left to right in the text as it was, and what is
\* put in their place is not searched again.
ReplaceAll(text, pattern, replacement, i) ==
    IF i > Len(text) THEN <<>>
    ELSE IF MatchesAt(text, pattern, i)
    THEN GetSubstitution(replacement, 1, pattern,
                         Slice(text, 1, i - 1),
                         Slice(text, i + Len(pattern), Len(text)))
         \o ReplaceAll(text, pattern, replacement, i + Len(pattern))
    ELSE <<text[i]>> \o ReplaceAll(text, pattern, replacement, i + 1)

RECURSIVE CompileTemplateFileUnprefixed(_, _, _)
\* Mutant of compileTemplateFile: the pattern is the tag name without '%'.
CompileTemplateFileUnprefixed(text, tags, i) ==
    IF i > Len(tags) THEN text
    ELSE CompileTemplateFileUnprefixed(
            ReplaceAll(text, tags[i].name, tags[i].value, 1), tags, i + 1)

RECURSIVE CompileTemplateFile(_, _, _)
\* compileTemplateFile(text, tags), the for-loop from the i-th key on.
CompileTemplateFile(text, tags, i) ==
    IF i > Len(tags) THEN text
    ELSE CompileTemplateFile(
            ReplaceAll(text, <<"%">> \o tags[i].name, tags[i].value, 1),
            tags, i + 1)

TemplateInit ==
    /\ tplText \in Texts
    /\ tplTags \in TagLists
    /\ tplOnce = <<>>
    /\ tplTwice = <<>>
    /\ tplPc = "call"

\* content = compileTemplateFile(text, tags)
Compile ==
    /\ tplPc = "call"
    /\ tplOnce' = CompileTemplateFile(tplText, tplTags, 1)
    /\ tplPc' = "once"
    /\ UNCHANGED <<tplText, tplTags, tplTwice, tplRest>>

\* compileTemplateFile(content, tags): a second pass with the same tags
Recompile ==
    /\ tplPc = "once"
    /\ tplTwice' = CompileTemplateFile(tplOnce, tplTags, 1)
    /\ tplPc' = "twice"
    /\ UNCHANGED <<tplText, tplTags, tplOnce, tplRest>>

(***************************************************************************)
(* create: compileTemplate                                                 *)
(***************************************************************************)
MaxDepth == 2

\* File names, in the order fs.readdirSync lists them.
FileNames == <<"a", "b">>

FileNameSet == {FileNames[i] : i \in DOMAIN FileNames}

\* File contents: one with a tag and one without.
Contents == {<<"%", "A">>, <<"x">>}

\* The tags compileTemplate is called with.
WalkTags == {<<[name |-> <<"A">>, value |-> v]>> : v \in {<<"x">>, <<"%", "B">>}}

NoEntry == [kind |-> "none", content |-> <<>>, entries |-> <<>>]

RegularFile(content) == [kind |-> "file", content |-> content, entries |-> <<>>]

Directory(entries) == [kind |-> "dir", content |-> <<>>, entries |-> entries]

RECURSIVE Nodes(_)
\* What a name at depth d can stand for: nothing, a regular file, or (above
\* the deepest level) a directory.
Nodes(d) ==
    {NoEntry} \cup {RegularFile(c) : c \in Contents}
    \cup (IF d < MaxDepth
          THEN {Directory(e) : e \in [FileNameSet -> Nodes(d + 1)]}
          ELSE {})

RECURSIVE NodeAt(_, _)
\* fs.statSync / fs.readFileSync: the node at a path below the directory.
NodeAt(dir, path) ==
    IF Len(path) = 1 THEN dir.entries[path[1]]
    ELSE NodeAt(dir.entries[path[1]], Tail(path))

RECURSIVE WriteFileSync(_, _, _)
\* fs.writeFileSync(filePath, content) on an existing regular file.
WriteFileSync(dir, path, content) ==
    IF Len(path) = 1
    THEN [dir EXCEPT !.entries[path[1]] = RegularFile(content)]
    ELSE [dir EXCEPT !.entries[path[1]] = WriteFileSync(@, Tail(path), content)]

RECURSIVE ReaddirSync(_, _, _)
\* fs.readdirSync(path).map(file => resolve(path, file)), from name i on.
ReaddirSync(dir, path, i) ==
    IF i > Len(FileNames) THEN <<>>
    ELSE (IF dir.entries[FileNames[i]].kind = "none" THEN <<>>
          ELSE <<Append(path, FileNames[i])>>)
         \o ReaddirSync(dir, path, i + 1)

\* Mutant of compileTemplate: a directory is skipped.
CompileTemplateFlat(node, filePath, pending) == pending

\* compileTemplate(filePath, tags) for a directory: its entries are visited
\* before the rest of the enclosing directory.
CompileTemplate(node, filePath, pending) ==
    ReaddirSync(node, filePath, 1) \o pending

WalkInit ==
    /\ fsTree0 \in {Directory(e) : e \in [FileNameSet -> Nodes(1)]}
    /\ fsTree = fsTree0
    /\ wTags \in WalkTags
    /\ wPending = ReaddirSync(fsTree0, <<>>, 1)

\* forEach callback, fs.statSync(filePath).isDirectory(): recurse
VisitDirectory ==
    /\ wPending # <<>>
    /\ LET filePath == Head(wPending)
           node == NodeAt(fsTree, filePath)
       IN  /\ node.kind = "dir"
           /\ wPending' = CompileTemplate(node, filePath, Tail(wPending))
    /\ UNCHANGED <<fsTree, fsTree0, wTags, wRest>>

\* forEach callback, a regular file: read, compile, write back
VisitFile ==
    /\ wPending # <<>>
    /\ LET filePath == Head(wPending)
           node == NodeAt(fsTree, filePath)
       IN  /\ node.kind = "file"
           /\ fsTree' = WriteFileSync(fsTree, filePath,
                            CompileTemplateFile(node.content, wTags, 1))
           /\ wPending' = Tail(wPending)
    /\ UNCHANGED <<fsTree0, wTags, wRest>>

(***************************************************************************)
(* create: updateLicenseText                                               *)
(***************************************************************************)
MaxLicenseLen == 3

\* Object.keys(values), in insertion order.
VarNames == <<"year", "fullname", "email", "project", "project_url">>

\* `[${varName}]`: a placeholder is one symbol of the text.
Placeholder(varName) ==
    CASE varName = "year" -> <<"[year]">>
      [] varName = "fullname" -> <<"[fullname]">>
      [] varName = "email" -> <<"[email]">>
      [] varName = "project" -> <<"[project]">>
      [] varName = "project_url" -> <<"[project_url]">>

\* Symbols of a license text: the placeholders and other text.
LicenseSymbols ==
    {"[year]", "[fullname]", "[email]", "[project]", "[project_url]", "x"}

LicenseTexts == UNION {[1..n -> LicenseSymbols] : n \in 0..MaxLicenseLen}

\* new Date().getFullYear(), as the string replace() makes of it
FullYear == <<"2026">>

\* The author, email, serviceName and homepage arguments: plain text, text
\* with the replacement patterns $$ and $&, and text that is a placeholder.
LicenseValues ==
    [year : {FullYear},
     fullname : {<<"n">>, <<"$", "$">>, <<"$", "&">>, <<"[email]">>},
     email : {<<"e">>, <<"$", "$">>},
     project : {<<"p">>},
     project_url : {<<"u">>}]

\* The first position at which the pattern occurs in the text, 0 if none.
IndexOf(text, pattern) ==
    IF \E i \in DOMAIN text : MatchesAt(text, pattern, i)
    THEN CHOOSE i \in DOMAIN text :
            /\ MatchesAt(text, pattern, i)
            /\ \A j \in 1..(i - 1) : ~MatchesAt(text, pattern, j)
    ELSE 0

\* text.replace(pattern, replacement) with a string pattern: the first
\* occurrence only, the replacement being a replacement pattern.
ReplaceFirst(text, pattern, replacement) ==
    LET i == IndexOf(text, pattern)
    IN  IF i = 0 THEN text
        ELSE LET before == Slice(text, 1, i - 1)
                 after == Slice(text, i + Len(pattern), Len(text))
             IN  before
                 \o GetSubstitution(replacement, 1, pattern, before, after)
                 \o after

RECURSIVE UpdateLicenseText(_, _, _)
\* updateLicenseText(text, author, email, serviceName, homepage), the
\* for-loop from the i-th key on.
UpdateLicenseText(text, values, i) ==
    IF i > Len(VarNames) THEN text
    ELSE UpdateLicenseText(
            ReplaceFirst(text, Placeholder(VarNames[i]), values[VarNames[i]]),
            values, i + 1)

LicenseTextInit ==
    /\ ltText \in LicenseTexts
    /\ ltValues \in LicenseValues
    /\ ltResult = <<>>
    /\ ltPc = "call"

\* updateLicenseText(text, author, email, serviceName, homepage)
UpdateText ==
    /\ ltPc = "call"
    /\ ltResult' = UpdateLicenseText(ltText, ltValues, 1)
    /\ ltPc' = "returned"
    /\ UNCHANGED <<ltText, ltValues, ltRest>>

(***************************************************************************)
(* create: ensureLicense                                                   *)
(***************************************************************************)
\* The license argument: the default, a known id and an unknown one.
LicenseArgs == {"UNLICENSED", "MIT", "BOGUS"}

\* config.license: undefined, empty, or a license id.
ConfigLicenses == {"undef", "", "UNLICENSED", "MIT"}

\* What the user picks at licensingOptions().
UserLicenses ==
    {[id |-> "MIT", name |-> "MIT License"],
     [id |-> "UNLICENSED", name |-> "Proprietary"],
     [id |-> "BOGUS", name |-> "Bogus"]}

\* What findLicense(license) gives: records with and without a header.
FoundLicenses(license) ==
    IF license = "MIT"
    THEN {[name |-> "MIT License", spdx_id |-> "MIT",
           body |-> <<"[year]", "[fullname]", "x">>, header |-> <<>>],
          [name |-> "MIT License", spdx_id |-> "MIT",
           body |-> <<"x">>, header |-> <<"[year]", "[fullname]", "[email]">>]}
    ELSE {}

EnsureLicenseArgs ==
    [license : LicenseArgs,
     author : {<<"n">>, <<"$", "&">>},
     email : {<<"e">>, <<"f">>}]

\* The header of the proprietary notice.
UnlicensedHeader(author, email) ==
    <<"/*!", "Copyright (c) ">> \o FullYear \o author \o <<"<">> \o email
    \o <<">", "This software is private and is unlicensed.", "*/">>

\* The text of the proprietary notice.
UnlicensedText(author, email) ==
    <<"Copyright (c) ">> \o FullYear \o author \o <<"<">> \o email
    \o <<">", "This software is private and is unlicensed.">>

\* The header used for a license that brings none.
DefaultHeader(author, email, spdx_id) ==
    <<"Copyright (c) ">> \o FullYear \o author \o <<"<">> \o email
    \o <<">", "This software is licensed under ", spdx_id>>

\* Mutant of the prompt condition: config.license is not looked at.
PromptsWhateverConfig(license, cfg) == license = "UNLICENSED"

\* license === 'UNLICENSED' && typeof config.license === 'undefined'
Prompts(license, cfg) == license = "UNLICENSED" /\ cfg = "undef"

NoResult == [text |-> <<>>, header |-> <<>>, name |-> "", tag |-> "UNLICENSED"]

NoFile == [exists |-> FALSE, text |-> <<>>]

EnsureLicenseInit ==
    /\ elArgs \in EnsureLicenseArgs
    /\ elConfig \in ConfigLicenses
    /\ elLicense = elArgs.license
    /\ elPrompted = FALSE
    /\ elResult = NoResult
    /\ elFile \in {NoFile, [exists |-> TRUE, text |-> <<"x">>]}
    /\ elPc = "call"

\* ensureLicense up to the first if
EnsureLicense ==
    /\ elPc = "call"
    /\ elPc' = IF Prompts(elLicense, elConfig) THEN "prompt" ELSE "resolve"
    /\ UNCHANGED <<elArgs, elConfig, elLicense, elPrompted, elResult, elFile,
                   elRest>>

\* userLicense = await licensingOptions()
LicensingOptions ==
    /\ elPc = "prompt"
    /\ \E userLicense \in UserLicenses :
        /\ elResult' = [elResult EXCEPT !.tag = userLicense.id,
                                        !.name = userLicense.name]
        /\ elLicense' = userLicense.id
    /\ elPrompted' = TRUE
    /\ elPc' = "resolve"
    /\ UNCHANGED <<elArgs, elConfig, elFile, elRest>>

\* license === 'UNLICENSED': the notice; LICENSE is unlinked and written
ResolveUnlicensed ==
    /\ elPc = "resolve"
    /\ elLicense = "UNLICENSED"
    /\ elResult' = [elResult EXCEPT
            !.header = UnlicensedHeader(elArgs.author, elArgs.email),
            !.text = UnlicensedText(elArgs.author, elArgs.email),
            !.name = elLicense]
    /\ elFile' = [exists |-> TRUE, text |-> elResult'.text]
    /\ elPc' = "returned"
    /\ UNCHANGED <<elArgs, elConfig, elLicense, elPrompted, elRest>>

\* else: findLicense(license) and its text and header, placeholders filled;
\* LICENSE is unlinked and written
ResolveLicense ==
    /\ elPc = "resolve"
    /\ elLicense # "UNLICENSED"
    /\ \E lic \in FoundLicenses(elLicense) :
        LET header == UpdateLicenseText(lic.header,
                        [year |-> FullYear, fullname |-> elArgs.author,
                         email |-> elArgs.email, project |-> <<"p">>,
                         project_url |-> <<"u">>], 1)
        IN  elResult' =
                [text |-> UpdateLicenseText(lic.body \o <<"\n">>,
                        [year |-> FullYear, fullname |-> elArgs.author,
                         email |-> elArgs.email, project |-> <<"p">>,
                         project_url |-> <<"u">>], 1),
                 name |-> lic.name,
                 tag |-> lic.spdx_id,
                 header |-> <<"/*!">>
                    \o (IF header # <<>> THEN header
                        ELSE DefaultHeader(elArgs.author, elArgs.email,
                                           lic.spdx_id))
                    \o <<"*/">>]
    /\ elFile' = [exists |-> TRUE, text |-> elResult'.text]
    /\ elPc' = "returned"
    /\ UNCHANGED <<elArgs, elConfig, elLicense, elPrompted, elRest>>

\* else: no license of that id, reading lic.body throws
ResolveUnknown ==
    /\ elPc = "resolve"
    /\ elLicense # "UNLICENSED"
    /\ FoundLicenses(elLicense) = {}
    /\ elPc' = "threw"
    /\ UNCHANGED <<elArgs, elConfig, elLicense, elPrompted, elResult, elFile,
                   elRest>>

(***************************************************************************)
(* node versions: semverCompare                                            *)
(***************************************************************************)
MaxPre == 1

\* major.minor.patch of the versions compared
Cores ==
    {[major |-> 1, minor |-> 0, patch |-> 0],
     [major |-> 1, minor |-> 9, patch |-> 0],
     [major |-> 1, minor |-> 9, patch |-> 9],
     [major |-> 2, minor |-> 0, patch |-> 0]}

\* Prerelease identifiers: the numbers 1 and 2, and 'alpha' (val is the
\* number, or the rank of the identifier in ASCII order).
PreIds ==
    {[num |-> TRUE, val |-> 1], [num |-> TRUE, val |-> 2],
     [num |-> FALSE, val |-> 1]}

\* A version string as new SemVer(version) parses it; build metadata is
\* parsed and takes no part in any comparison.
Versions ==
    {[core |-> c, pre |-> p, build |-> b] :
        c \in Cores,
        p \in UNION {[1..n -> PreIds] : n \in 0..MaxPre},
        b \in {"", "b"}}

Sign(n) == IF n > 0 THEN 1 ELSE IF n < 0 THEN 0 - 1 ELSE 0

\* semver compareIdentifiers: numbers by value and below anything else,
\* other identifiers in ASCII order
CompareIdentifiers(x, y) ==
    IF x.num /\ y.num THEN Sign(x.val - y.val)
    ELSE IF x.num THEN 0 - 1
    ELSE IF y.num THEN 1
    ELSE Sign(x.val - y.val)

\* SemVer.compareMain
CompareMain(a, b) ==
    IF a.core.major # b.core.major THEN Sign(a.core.major - b.core.major)
    ELSE IF a.core.minor # b.core.minor THEN Sign(a.core.minor - b.core.minor)
    ELSE Sign(a.core.patch - b.core.patch)

RECURSIVE ComparePreFrom(_, _, _)
\* SemVer.comparePre, the do-while from identifier i on
ComparePreFrom(p, q, i) ==
    IF i > Len(p) /\ i > Len(q) THEN 0
    ELSE IF i > Len(q) THEN 1
    ELSE IF i > Len(p) THEN 0 - 1
    ELSE IF p[i] = q[i] THEN ComparePreFrom(p, q, i + 1)
    ELSE CompareIdentifiers(p[i], q[i])

\* SemVer.comparePre: a version with a prerelease is below the same version
\* without
ComparePre(a, b) ==
    IF a.pre # <<>> /\ b.pre = <<>> THEN 0 - 1
    ELSE IF a.pre = <<>> /\ b.pre # <<>> THEN 1
    ELSE IF a.pre = <<>> /\ b.pre = <<>> THEN 0
    ELSE ComparePreFrom(a.pre, b.pre, 1)

\* SemVer.compare
SemverCompareTo(a, b) ==
    IF CompareMain(a, b) # 0 THEN CompareMain(a, b) ELSE ComparePre(a, b)

\* semver.gt(a, b)
SemverGt(a, b) == SemverCompareTo(a, b) > 0

\* semver.lt(a, b)
SemverLt(a, b) == SemverCompareTo(a, b) < 0

\* Mutant of semverCompare: gte for gt.
SemverCompareGte(a, b) ==
    IF SemverCompareTo(a, b) >= 0 THEN 0 - 1
    ELSE IF SemverLt(a, b) THEN 1 ELSE 0

\* semverCompare(a, b)
SemverCompare(a, b) ==
    IF SemverGt(a, b) THEN 0 - 1
    ELSE IF SemverLt(a, b) THEN 1 ELSE 0

SemverInit ==
    /\ svA \in Versions
    /\ svB \in Versions
    /\ svC \in Versions
    /\ svResult = [ab |-> 0, ba |-> 0, bc |-> 0, ac |-> 0]
    /\ svPc = "call"

\* semverCompare applied to the pairs of a, b and c
CompareVersions ==
    /\ svPc = "call"
    /\ svResult' = [ab |-> SemverCompare(svA, svB),
                    ba |-> SemverCompare(svB, svA),
                    bc |-> SemverCompare(svB, svC),
                    ac |-> SemverCompare(svA, svC)]
    /\ svPc' = "returned"
    /\ UNCHANGED <<svA, svB, svC, svRest>>

(***************************************************************************)
(* node versions: getNodeVersions, nodeVersion                             *)
(***************************************************************************)
MaxCatalog == 2
MaxCalls == 3

\* version of an index entry: 'v' and a version without prerelease or build
NodeVersionStrings ==
    {[v |-> TRUE, core |-> c, pre |-> <<>>, build |-> ""] : c \in Cores}

\* lts of an index entry: false ("false") or the codename of the LTS line
LtsValues == {"false", "Iron"}

NodeVersionEntries == [version : NodeVersionStrings, lts : LtsValues]

\* JSON.parse(res.body) || []: an index of entries with distinct versions,
\* in any order; the empty index stands for the bodies '[]' and 'null' too.
Catalogs ==
    {c \in UNION {[1..n -> NodeVersionEntries] : n \in 0..MaxCatalog} :
        \A i, j \in DOMAIN c : i # j => c[i].version # c[j].version}

\* version.replace(RX_VERSION_CLEAN, '')
VersionClean(version) == [version EXCEPT !.v = FALSE]

\* The tag argument of nodeVersion: a name, or the leading components of a
\* version ('1', '1.9').
NodeTags ==
    [name : {"node", "latest", "stable", "lts", "lts/*"}, prefix : {<<>>}]
    \cup [name : {"version"}, prefix : {<<1>>, <<1, 9>>, <<3>>}]

NoTag == [name |-> "", prefix |-> <<>>]

\* The comparator of the sort: semverCompare of the cleaned versions.
CompareEntries(a, b) ==
    SemverCompare(VersionClean(a.version), VersionClean(b.version))

RECURSIVE InsertEntry(_, _, _)
\* The entry put into a sorted list from position i on: behind every entry
\* the comparator does not place after it (the sort is stable).
InsertEntry(e, sorted, i) ==
    IF i > Len(sorted) THEN Append(sorted, e)
    ELSE IF CompareEntries(e, sorted[i]) < 0
    THEN Slice(sorted, 1, i - 1) \o <<e>> \o Slice(sorted, i, Len(sorted))
    ELSE InsertEntry(e, sorted, i + 1)

RECURSIVE SortFrom(_, _, _)
SortFrom(list, i, sorted) ==
    IF i > Len(list) THEN sorted
    ELSE SortFrom(list, i + 1, InsertEntry(list[i], sorted, 1))

\* Mutant of the sort: the index is kept in the order the server sent it.
SortVersionsAsSent(list) == list

\* (...).sort((a, b) => semverCompare(...)): highest version first
SortVersions(list) == SortFrom(list, 1, <<>>)

\* Mutant of the cache test: an empty cached index is fetched again.
UseCacheUnlessEmpty(force, cache) ==
    ~force /\ cache.defined /\ cache.list # <<>>

\* !force && nodeVersions (an array, also an empty one, is truthy)
UseCache(force, cache) == ~force /\ cache.defined

\* new RegExp(`^v${tag.replace(RX_ESCAPE, '\\.')}`).test(version.version),
\* for versions whose components are single digits
MatchesTag(prefix, version) ==
    LET parts == <<version.core.major, version.core.minor, version.core.patch>>
    IN  /\ version.v
        /\ Len(prefix) <= 3
        /\ \A k \in DOMAIN prefix : parts[k] = prefix[k]

\* The entry a tag selects in nodeVersion.
Selected(tag, e) ==
    IF tag.name \in {"stable", "lts", "lts/*"} THEN e.lts # "false"
    ELSE IF tag.name = "version" THEN MatchesTag(tag.prefix, e.version)
    ELSE TRUE

\* versions.find(...): index of the first entry selected, 0 if none
FindIndex(versions, tag) ==
    IF \E i \in DOMAIN versions : Selected(tag, versions[i])
    THEN CHOOSE i \in DOMAIN versions :
            /\ Selected(tag, versions[i])
            /\ \A j \in 1..(i - 1) : ~Selected(tag, versions[j])
    ELSE 0

\* nodeVersion(tag), after versions = await getNodeVersions()
NodeVersion(tag, versions) ==
    LET i == IF tag.name \in {"node", "latest"}
             THEN (IF versions = <<>> THEN 0 ELSE 1)
             ELSE FindIndex(versions, tag)
    IN  IF i = 0 THEN <<>> ELSE <<VersionClean(versions[i].version)>>

NodeInit ==
    /\ nodeVersions = [defined |-> FALSE, list |-> <<>>]
    /\ nvFetched = <<>>
    /\ nvRequests = 0
    /\ nvSets = 0
    /\ nvCalls = 0
    /\ nvCall = [fn |-> "", force |-> FALSE, tag |-> NoTag]
    /\ nvVersions = <<>>
    /\ nvReturn = <<>>
    /\ nvPc = "ready"

\* A call starts: the cache is returned, or the index is requested.
Start(call) ==
    /\ nvPc \in {"ready", "returned", "failed"}
    /\ nvCalls < MaxCalls
    /\ nvCalls' = nvCalls + 1
    /\ nvCall' = call
    /\ nvReturn' = <<>>
    /\ IF UseCache(call.force, nodeVersions)
       THEN /\ nvVersions' = nodeVersions.list
            /\ nvPc' = "resolved"
            /\ UNCHANGED nvRequests
       ELSE /\ nvVersions' = <<>>
            /\ nvPc' = "fetching"
            /\ nvRequests' = nvRequests + 1
    /\ UNCHANGED <<nodeVersions, nvFetched, nvSets, nvRest>>

\* getNodeVersions(force)
GetNodeVersions ==
    \E force \in BOOLEAN :
        Start([fn |-> "getNodeVersions", force |-> force, tag |-> NoTag])

\* nodeVersion(tag): versions = await getNodeVersions()
NodeVersionCall ==
    \E tag \in NodeTags :
        Start([fn |-> "nodeVersion", force |-> FALSE, tag |-> tag])

\* request callback with err: reject(err)
RequestError ==
    /\ nvPc = "fetching"
    /\ nvPc' = "rejected"
    /\ UNCHANGED <<nodeVersions, nvFetched, nvRequests, nvSets, nvCalls, nvCall,
                   nvVersions, nvReturn, nvRest>>

\* request callback with a body that is no JSON: JSON.parse throws
RequestBodyInvalid ==
    /\ nvPc = "fetching"
    /\ nvPc' = "thrown"
    /\ UNCHANGED <<nodeVersions, nvFetched, nvRequests, nvSets, nvCalls, nvCall,
                   nvVersions, nvReturn, nvRest>>

\* request callback with the index: sorted, cached and resolved
RequestDone ==
    /\ nvPc = "fetching"
    /\ \E body \in Catalogs :
        /\ nvFetched' = body
        /\ nodeVersions' = [defined |-> TRUE, list |-> SortVersions(body)]
    /\ nvVersions' = nodeVersions'.list
    /\ nvSets' = IF nvCall.force THEN nvSets ELSE nvSets + 1
    /\ nvPc' = "resolved"
    /\ UNCHANGED <<nvRequests, nvCalls, nvCall, nvReturn, nvRest>>

\* the caller of getNodeVersions goes on with the versions
ReturnVersions ==
    /\ nvPc = "resolved"
    /\ nvCall.fn = "getNodeVersions"
    /\ nvPc' = "returned"
    /\ UNCHANGED <<nodeVersions, nvFetched, nvRequests, nvSets, nvCalls, nvCall,
                   nvVersions, nvReturn, nvRest>>

\* nodeVersion: the switch on the tag
ReturnVersion ==
    /\ nvPc = "resolved"
    /\ nvCall.fn = "nodeVersion"
    /\ nvReturn' = NodeVersion(nvCall.tag, nvVersions)
    /\ nvPc' = "returned"
    /\ UNCHANGED <<nodeVersions, nvFetched, nvRequests, nvSets, nvCalls, nvCall,
                   nvVersions, nvRest>>

\* the caller sees the rejection
Rejected ==
    /\ nvPc = "rejected"
    /\ nvPc' = "failed"
    /\ UNCHANGED <<nodeVersions, nvFetched, nvRequests, nvSets, nvCalls, nvCall,
                   nvVersions, nvReturn, nvRest>>

(***************************************************************************)
(* node versions: toTravisTags                                             *)
(***************************************************************************)
MaxTravisTags == 3

\* Node tags: the names with a Travis counterpart, Travis tags themselves,
\* and a version number.
NodeTagNames == {"stable", "lts", "latest", "node", "lts/*", "8"}

\* The tags argument: undefined, a string (also the empty one) or an array.
TagsArguments ==
    {[kind |-> "undefined", list |-> <<>>], [kind |-> "string", list |-> <<"">>]}
    \cup {[kind |-> "string", list |-> <<t>>] : t \in NodeTagNames}
    \cup [kind : {"array"},
          list : UNION {[1..n -> NodeTagNames] : n \in 0..MaxTravisTags}]

\* The switch of toTravisTags: what one tag pushes ('stable' and 'lts' fall
\* through to the case of 'latest').
Pushed(tag) ==
    IF tag \in {"stable", "lts"} THEN <<"lts/*", "node">>
    ELSE IF tag = "latest" THEN <<"node">>
    ELSE <<tag>>

RECURSIVE PushAll(_, _)
\* The for-loop of toTravisTags from tag i on.
PushAll(tags, i) ==
    IF i > Len(tags) THEN <<>>
    ELSE Pushed(tags[i]) \o PushAll(tags, i + 1)

RECURSIVE FilterFirst(_, _)
\* travisTags.filter((tag, i) => travisTags.indexOf(tag) === i), from i on
FilterFirst(travisTags, i) ==
    IF i > Len(travisTags) THEN <<>>
    ELSE (IF \A j \in 1..(i - 1) : travisTags[j] # travisTags[i]
          THEN <<travisTags[i]>> ELSE <<>>)
         \o FilterFirst(travisTags, i + 1)

\* toTravisTags(tags)
ToTravisTags(tags) ==
    IF tags.kind = "undefined" \/ tags = [kind |-> "string", list |-> <<"">>]
    THEN <<>>
    ELSE FilterFirst(PushAll(tags.list, 1), 1)

TravisTagsInit ==
    /\ ttTags \in TagsArguments
    /\ ttResult = <<>>
    /\ ttPc = "call"

\* toTravisTags(tags)
ConvertTags ==
    /\ ttPc = "call"
    /\ ttResult' = ToTravisTags(ttTags)
    /\ ttPc' = "returned"
    /\ UNCHANGED <<ttTags, ttRest>>

(***************************************************************************)
(* completions on                                                          *)
(***************************************************************************)
MaxProgramLen == 2
MaxRuns == 3

\* Characters of a program name: a plain one and the regular expression
\* characters '.' and '+'.
ProgramChars == {"q", ".", "+"}

Programs == UNION {[1..n -> ProgramChars] : n \in 1..MaxProgramLen}

RcFilenames == {"~/.bashrc", "~/.zshrc"}

\* Symbols of an rc text that stand for one character.
SingleChars == ProgramChars \cup {"-", "x"}

\* `###-begin-${PROGRAM}-completions-###`
BeginMarker(program) ==
    <<"###-begin", "-">> \o program \o <<"-", "completions-###">>

\* The script that is appended.
Script(program, zsh) ==
    <<"\n">> \o BeginMarker(program)
    \o <<"\n", IF zsh THEN "autoload bashcompinit" ELSE "", "\n",
         "_yargs_completions">> \o program
    \o <<"complete -F _yargs_completions">> \o program
    \o <<"\n", "###-end", "-">> \o program \o <<"-", "completions-###", "\n">>

\* new RegExp(pattern) throws a SyntaxError: a '+' with nothing to repeat.
RegExpInvalid(pattern) ==
    \E i \in 1..(Len(pattern) - 1) : pattern[i] = "+" /\ pattern[i + 1] = "+"

\* One atom of the pattern matches one symbol of the text.
AtomMatches(atom, symbol) ==
    IF atom = "." THEN symbol \in SingleChars ELSE atom = symbol

RECURSIVE MatchFrom(_, _, _, _)
\* The pattern from atom i on matches the text at position k ('+' repeats
\* the atom before it, '.' is any character).
MatchFrom(pattern, i, text, k) ==
    IF i > Len(pattern) THEN TRUE
    ELSE IF i < Len(pattern) /\ pattern[i + 1] = "+"
    THEN \E n \in 1..(Len(text) - k + 1) :
            /\ \A m \in 0..(n - 1) : AtomMatches(pattern[i], text[k + m])
            /\ MatchFrom(pattern, i + 2, text, k + n)
    ELSE /\ k <= Len(text)
         /\ AtomMatches(pattern[i], text[k])
         /\ MatchFrom(pattern, i + 1, text, k + 1)

\* rxExist.test(rcText)
RegExpTest(pattern, text) ==
    \E k \in DOMAIN text : MatchFrom(pattern, 1, text, k)

\* new RegExp(`###-begin-${PROGRAM}-completions-###`).test(rcText)
MarkerFound(program, text) == RegExpTest(BeginMarker(program), text)

\* What an rc file can hold before the first run: nothing, other text, the
\* script of this program or the begin marker of a program named 'qq'.
RcTexts(program) ==
    {<<>>, <<"x">>, Script(program, FALSE), BeginMarker(<<"q", "q">>)}

CompletionsInit ==
    /\ PROGRAM \in Programs
    /\ rcFiles \in [RcFilenames ->
            {[exists |-> FALSE, text |-> <<>>]}
            \cup {[exists |-> TRUE, text |-> t] : t \in RcTexts(PROGRAM)}]
    /\ coRuns = [f \in RcFilenames |-> 0]
    /\ coOut = "none"

\* handler: read the rc file (which throws when there is none), test it for
\* the begin marker (which throws when the expression is invalid), and
\* append the script when the marker was not found.
CompletionsOn ==
    \E zsh \in BOOLEAN :
        LET rcFilename == IF zsh THEN "~/.zshrc" ELSE "~/.bashrc"
            rcFile == rcFiles[rcFilename]
        IN  /\ coRuns[rcFilename] < MaxRuns
            /\ coRuns' = [coRuns EXCEPT ![rcFilename] = @ + 1]
            /\ IF ~rcFile.exists \/ RegExpInvalid(BeginMarker(PROGRAM))
               THEN /\ coOut' = "error"
                    /\ UNCHANGED rcFiles
               ELSE IF ~MarkerFound(PROGRAM, rcFile.text)
               THEN /\ rcFiles' = [rcFiles EXCEPT ![rcFilename].text =
                                      @ \o Script(PROGRAM, zsh)]
                    /\ coOut' = "added"
               ELSE /\ coOut' = "exists"
                    /\ UNCHANGED rcFiles
            /\ UNCHANGED <<PROGRAM, coRest>>

(***************************************************************************)
(* Specifications: one per entry point. A process runs one command, so the *)
(* state of the other parts stays at its idle value.                       *)
(***************************************************************************)
UVIdle ==
    /\ folders = <<>>
    /\ uvPc = "idle"
    /\ idx = 1
    /\ step = CHECKOUT
    /\ log = <<>>
    /\ doneLog = {}

TravisIdle ==
    /\ tEntry = "none"
    /\ tPc = "idle"
    /\ owner = ""
    /\ repo = ""
    /\ hooks = <<>>
    /\ hooks0 = <<>>
    /\ hook = 0
    /\ syncArgs = [retry |-> 0, maxRetries |-> DefaultMaxRetries,
                   delay |-> DefaultDelay]
    /\ retry = 0
    /\ maxRetries = DefaultMaxRetries
    /\ delay = DefaultDelay
    /\ attempts = <<>>
    /\ sleeps = <<>>
    /\ syncRet = "none"
    /\ puts = <<>>
    /\ ebRet = "none"

CreateIdle ==
    /\ cPc = "idle"
    /\ argvPath = "."
    /\ argvG = "undef"
    /\ argvD = "undef"
    /\ argvU = ""
    /\ cfgUseGit = "undef"
    /\ cfgUseDocker = "undef"
    /\ cfgToken = ""
    /\ gitRepoInitialized = FALSE
    /\ dockerNs = ""
    /\ dockerize = FALSE
    /\ stageStatus = [st \in StageSet |-> "none"]
    /\ trace = <<>>
    /\ calls = <<>>
    /\ prompts = [p \in {"useGit", "useDocker"} |-> "none"]
    /\ enableResult = "none"
    /\ remoteFailure = "none"
    /\ out = {}

DiscoverIdle ==
    /\ dRoot = [kind |-> "notdir", exports |-> <<>>]
    /\ dEntries = <<>>
    /\ dFolders = <<>>
    /\ dCwd = RootDirectory
    /\ dPc = "idle"

TemplateIdle ==
    /\ tplText = <<>>
    /\ tplTags = <<>>
    /\ tplOnce = <<>>
    /\ tplTwice = <<>>
    /\ tplPc = "idle"

WalkIdle ==
    /\ fsTree = NoEntry
    /\ fsTree0 = NoEntry
    /\ wTags = <<>>
    /\ wPending = <<>>

LicenseTextIdle ==
    /\ ltText = <<>>
    /\ ltValues = <<>>
    /\ ltResult = <<>>
    /\ ltPc = "idle"

EnsureLicenseIdle ==
    /\ elArgs = <<>>
    /\ elConfig = "undef"
    /\ elLicense = ""
    /\ elPrompted = FALSE
    /\ elResult = NoResult
    /\ elFile = NoFile
    /\ elPc = "idle"

SemverIdle ==
    /\ svA = <<>>
    /\ svB = <<>>
    /\ svC = <<>>
    /\ svResult = <<>>
    /\ svPc = "idle"

NodeIdle ==
    /\ nodeVersions = [defined |-> FALSE, list |-> <<>>]
    /\ nvFetched = <<>>
    /\ nvRequests = 0
    /\ nvSets = 0
    /\ nvCalls = 0
    /\ nvCall = [fn |-> "", force |-> FALSE, tag |-> NoTag]
    /\ nvVersions = <<>>
    /\ nvReturn = <<>>
    /\ nvPc = "idle"

TravisTagsIdle ==
    /\ ttTags = [kind |-> "undefined", list |-> <<>>]
    /\ ttResult = <<>>
    /\ ttPc = "idle"

CompletionsIdle ==
    /\ PROGRAM = <<>>
    /\ rcFiles = <<>>
    /\ coRuns = <<>>
    /\ coOut = "idle"

LibIdle ==
    DiscoverIdle /\ TemplateIdle /\ WalkIdle /\ LicenseTextIdle
    /\ EnsureLicenseIdle /\ SemverIdle /\ NodeIdle /\ TravisTagsIdle
    /\ CompletionsIdle

CmdIdle == UVIdle /\ TravisIdle /\ CreateIdle

\* imq update-version <path>
InitUV == UVInit /\ TravisIdle /\ CreateIdle /\ LibIdle

NextUV ==
    \/ UVHandler
    \/ GitCheckout
    \/ GitPull
    \/ ChangeVersion
    \/ GitPush

SpecUV == InitUV /\ [][NextUV]_vars

\* lib/travis: enableBuilds(owner, repo, token) or trySyncBuilds(travis, ...)
InitTravis == UVIdle /\ TravisInit /\ CreateIdle /\ LibIdle

NextTravis ==
    \/ Authenticate
    \/ TrySyncBuilds
    \/ HooksGet
    \/ HooksPut

SpecTravis == InitTravis /\ [][NextTravis]_vars

\* imq service create [name] [path]
InitCreate == UVIdle /\ TravisIdle /\ CreateInit /\ LibIdle

NextCreate ==
    \/ BuildFromTemplate
    \/ CreateGitRepo
    \/ EnsureDockerNamespace
    \/ EnsureDockerTag
    \/ EnsureDockerSecrets
    \/ EnableBuilds
    \/ InstallPackages
    \/ Commit
    \/ Catch

SpecCreate == InitCreate /\ [][NextCreate]_vars

\* update-version: getServicesFolders(argv.path)
InitDiscover ==
    CmdIdle /\ DiscoverInit /\ TemplateIdle /\ WalkIdle /\ LicenseTextIdle
    /\ EnsureLicenseIdle /\ SemverIdle /\ NodeIdle /\ TravisTagsIdle
    /\ CompletionsIdle

NextDiscover == GetFolders

SpecDiscover == InitDiscover /\ [][NextDiscover]_vars

\* create: compileTemplateFile(text, tags), once and once more
InitTemplate ==
    CmdIdle /\ DiscoverIdle /\ TemplateInit /\ WalkIdle /\ LicenseTextIdle
    /\ EnsureLicenseIdle /\ SemverIdle /\ NodeIdle /\ TravisTagsIdle
    /\ CompletionsIdle

NextTemplate == Compile \/ Recompile

SpecTemplate == InitTemplate /\ [][NextTemplate]_vars

\* create: compileTemplate(path, tags)
InitWalk ==
    CmdIdle /\ DiscoverIdle /\ TemplateIdle /\ WalkInit /\ LicenseTextIdle
    /\ EnsureLicenseIdle /\ SemverIdle /\ NodeIdle /\ TravisTagsIdle
    /\ CompletionsIdle

NextWalk == VisitDirectory \/ VisitFile

SpecWalk == InitWalk /\ [][NextWalk]_vars

\* create: updateLicenseText(text, author, email, serviceName, homepage)
InitLicenseText ==
    CmdIdle /\ DiscoverIdle /\ TemplateIdle /\ WalkIdle /\ LicenseTextInit
    /\ EnsureLicenseIdle /\ SemverIdle /\ NodeIdle /\ TravisTagsIdle
    /\ CompletionsIdle

NextLicenseText == UpdateText

SpecLicenseText == InitLicenseText /\ [][NextLicenseText]_vars

\* create: ensureLicense(path, license, author, email, homepage, serviceName)
InitEnsureLicense ==
    CmdIdle /\ DiscoverIdle /\ TemplateIdle /\ WalkIdle /\ LicenseTextIdle
    /\ EnsureLicenseInit /\ SemverIdle /\ NodeIdle /\ TravisTagsIdle
    /\ CompletionsIdle

NextEnsureLicense ==
    \/ EnsureLicense
    \/ LicensingOptions
    \/ ResolveUnlicensed
    \/ ResolveLicense
    \/ ResolveUnknown

SpecEnsureLicense == InitEnsureLicense /\ [][NextEnsureLicense]_vars

\* node versions: semverCompare(a, b)
InitSemver ==
    CmdIdle /\ DiscoverIdle /\ TemplateIdle /\ WalkIdle /\ LicenseTextIdle
    /\ EnsureLicenseIdle /\ SemverInit /\ NodeIdle /\ TravisTagsIdle
    /\ CompletionsIdle

NextSemver == CompareVersions

SpecSemver == InitSemver /\ [][NextSemver]_vars

\* node versions: calls of getNodeVersions and nodeVersion, one at a time
InitNode ==
    CmdIdle /\ DiscoverIdle /\ TemplateIdle /\ WalkIdle /\ LicenseTextIdle
    /\ EnsureLicenseIdle /\ SemverIdle /\ NodeInit /\ TravisTagsIdle
    /\ CompletionsIdle

NextNode ==
    \/ GetNodeVersions
    \/ NodeVersionCall
    \/ RequestError
    \/ RequestBodyInvalid
    \/ RequestDone
    \/ ReturnVersions
    \/ ReturnVersion
    \/ Rejected

SpecNode == InitNode /\ [][NextNode]_vars

\* node versions: toTravisTags(tags)
InitTravisTags ==
    CmdIdle /\ DiscoverIdle /\ TemplateIdle /\ WalkIdle /\ LicenseTextIdle
    /\ EnsureLicenseIdle /\ SemverIdle /\ NodeIdle /\ TravisTagsInit
    /\ CompletionsIdle

NextTravisTags == ConvertTags

SpecTravisTags == InitTravisTags /\ [][NextTravisTags]_vars

\* completions on: runs of the handler
InitCompletions ==
    CmdIdle /\ DiscoverIdle /\ TemplateIdle /\ WalkIdle /\ LicenseTextIdle
    /\ EnsureLicenseIdle /\ SemverIdle /\ NodeIdle /\ TravisTagsIdle
    /\ CompletionsInit

NextCompletions == CompletionsOn

SpecCompletions == InitCompletions /\ [][NextCompletions]_vars

(***************************************************************************)
(* Properties                                                              *)
(***************************************************************************)
Range(f) == {f[i] : i \in DOMAIN f}

\* The process exited with a non-zero status.
NonZeroExit(e) == e.status # 0 /\ e.status # Null

\* A step of folders[idx] is spawned in this transition and exits non-zero.
StepExitsNonZero ==
    /\ uvPc = "flow"
    /\ log'[idx] # log[idx]
    /\ NonZeroExit(log'[idx][Len(log'[idx])])

\* C1: in update-version, a step that exits with a non-zero status is the last
\* step invoked for its directory (none of the following steps is run for
\* it), walkThroughFolders then goes on with the next discovered directory
\* (or finishes when it was the last one), and a walk that finishes has run
\* the git flow for every discovered directory.
C1_NonZeroExitSkipsRestOfDirectoryOnly ==
    /\ [](\A i \in DOMAIN log : \A k \in DOMAIN log[i] :
            NonZeroExit(log[i][k]) => k = Len(log[i]))
    /\ [][StepExitsNonZero =>
            /\ idx' = idx + 1
            /\ step' = CHECKOUT
            /\ uvPc' = IF idx < Len(folders) THEN "flow" ELSE "done"]_vars
    /\ [](uvPc = "done" => \A i \in DOMAIN folders : Len(log[i]) >= 1)

\* C1 witness: the checkout of one directory exited non-zero, nothing else was
\* run for it, and a later directory was still processed.
C1_Witness ==
    /\ uvPc = "done"
    /\ \E i, j \in DOMAIN log :
        /\ i < j
        /\ log[i] = <<[step |-> CHECKOUT, status |-> 1]>>
        /\ Len(log[j]) >= 1

\* C2: in update-version, the steps of a directory are invoked in the order
\* CHECKOUT, PULL, BUMP_VERSION, PUSH, each at most once, a step is invoked
\* only after every earlier step of that directory returned status 0, and
\* 'Done!' is logged for a directory only when all four steps returned 0.
C2_StepsInOrderOnlyAfterStatusZero ==
    \A i \in DOMAIN log :
        /\ \A k \in DOMAIN log[i] :
            /\ log[i][k].step = k
            /\ \A j \in 1..(k - 1) : log[i][j].status = 0
        /\ i \in doneLog =>
            /\ Len(log[i]) = 4
            /\ \A k \in DOMAIN log[i] : log[i][k].status = 0

\* The handler of `create` ended in its catch block.
CreateFailed == cPc = "end" /\ "error" \in out

CurrentDirectory == {".", "./"}

\* C3: when a stage of `create` throws, the generated directory is deleted,
\* except when the path argument is the current directory ('.' or './'), in
\* which case no directory is deleted.
C3_CleanupExceptCurrentDirectory ==
    (CreateFailed /\ argvPath # "") =>
        ("rmdir" \in Range(calls) <=> argvPath \notin CurrentDirectory)

Finished(st) == stageStatus[st] \in {"ok", "skipped"}

\* C4: the stages of `create` start in the order build, git, docker, install,
\* commit; a stage starts only when every earlier stage finished without
\* throwing (install and commit may be skipped, the others may not), and the
\* success message is printed only if no stage threw.
C4_StagesInOrderUntilFirstThrow ==
    /\ \A a, b \in DOMAIN trace :
        a < b => StageIndex(trace[a]) < StageIndex(trace[b])
    /\ \A k \in DOMAIN trace : \A st \in StageSet :
        StageIndex(st) < StageIndex(trace[k]) => Finished(st)
    /\ \A st \in StageSet :
        stageStatus[st] = "skipped" => st \in {"install", "commit"}
    /\ "success" \in out => \A st \in StageSet : Finished(st)

\* C4 witness: all five stages ran and the success message was printed.
C4_Witness ==
    /\ trace = Stages
    /\ "success" \in out

\* The value the use-git flag resolved to: the prompt answer when the user was
\* asked, else what the CLI argument or the config supplies.
UseGitResolved ==
    IF prompts["useGit"] # "none" THEN prompts["useGit"] = "true"
    ELSE Truthy(argvG) \/ Truthy(cfgUseGit)

\* C5: the user is asked about GitHub integration only when neither -g nor
\* config.useGit supplies a value, and whenever the use-git flag resolves to
\* false createRepository is not called.
C5_NoRepositoryWhenUseGitFalse ==
    stageStatus["git"] # "none" =>
        /\ prompts["useGit"] # "none" =>
            (~Truthy(argvG) /\ cfgUseGit = "undef")
        /\ ~UseGitResolved => "createRepository" \notin Range(calls)

\* The dockerize flag after ensureDockerNamespace resolved it.
DockerFlag == Truthy(argvD) \/ Truthy(cfgUseDocker)

DockerFlagResolved == "docker" \in Range(trace)

\* C6 as stated: when dockerization resolves to off, the command neither
\* encrypts Travis secrets nor attempts to enable Travis builds.
C6_Original_NoEncryptNoEnableWhenDockerOff ==
    (DockerFlagResolved /\ ~DockerFlag) =>
        /\ "travisEncrypt" \notin Range(calls)
        /\ "enableBuilds" \notin Range(calls)

\* C6: when dockerization resolves to off, the command does not encrypt Travis
\* secrets (it strips the Docker files instead), and it still attempts to
\* enable Travis builds: enableBuilds is the next call of buildDockerCi.
C6_NoEncryptWhenDockerOff ==
    (DockerFlagResolved /\ ~DockerFlag) =>
        /\ "travisEncrypt" \notin Range(calls)
        /\ "nodeVersion" \notin Range(calls)
        /\ "stripDockerization" \in Range(calls)
        /\ cPc = "enable" \/ "enableBuilds" \in Range(calls)

\* C6 witness: the repository exists and a DockerHub namespace is known, so
\* only the flag kept the service from being dockerized; builds were enabled.
C6_Witness ==
    /\ DockerFlagResolved /\ ~DockerFlag
    /\ gitRepoInitialized /\ dockerNs # ""
    /\ enableResult = "true"

\* Hooks of the list enableBuilds was called with that match owner and repo.
Matching ==
    {i \in DOMAIN hooks0 :
        hooks0[i].owner_name = owner /\ hooks0[i].name = repo}

\* C7: enableBuilds returns false if the Travis sync never succeeded or if no
\* hook with the given owner/name pair exists.
C7_FalseWhenSyncFailedOrNoHook ==
    (tEntry = "enableBuilds" /\ tPc = "returned") =>
        ((syncRet = "false" \/ Matching = {}) => ebRet = "false")

\* C8: enableBuilds updates at most one hook, and only the inactive hook
\* whose owner_name and name both equal the given owner and repo, setting
\* active=true; when it returns with such a hook found it returns true,
\* having issued exactly one update if the hook was inactive and none if it
\* was already active.
C8_EnablesMatchingInactiveHookOnce ==
    tEntry = "enableBuilds" =>
        /\ Len(puts) <= 1
        /\ \A k \in DOMAIN puts :
            /\ puts[k].id \in Matching
            /\ ~hooks0[puts[k].id].active
            /\ puts[k].active
        /\ tPc = "returned" =>
            \A i \in Matching :
                /\ ebRet = "true"
                /\ IF hooks0[i].active
                   THEN puts = <<>>
                   ELSE puts = <<[id |-> i, active |-> TRUE]>> /\ hooks[i].active

\* C8 witness: the matching hook was inactive, one update was issued and
\* enableBuilds returned true.
C8_Witness ==
    /\ tEntry = "enableBuilds" /\ tPc = "returned" /\ ebRet = "true"
    /\ \E i \in Matching : ~hooks0[i].active /\ puts = <<[id |-> i, active |-> TRUE]>>

\* C9: trySyncBuilds called with retry=0 makes at most maxRetries+1 attempts,
\* every retry follows its failed attempt after the same fixed delay (the
\* delay trySyncBuilds was called with), it stops at the first successful
\* attempt returning true, and returns false only after maxRetries+1 failed
\* attempts.
C9_BoundedRetriesWithFixedDelay ==
    tEntry # "none" =>
        /\ Len(attempts) <= syncArgs.maxRetries + 1
        /\ \A k \in DOMAIN sleeps : ~attempts[k] => sleeps[k] = syncArgs.delay
        /\ \A k \in 1..(Len(attempts) - 1) : ~attempts[k]
        /\ syncRet = "true" => attempts[Len(attempts)]
        /\ syncRet = "false" =>
            /\ Len(attempts) = syncArgs.maxRetries + 1
            /\ \A k \in DOMAIN attempts : ~attempts[k]

\* C10: in `create`, enableBuilds throwing or returning false is not fatal:
\* the manual-enable notice is printed, the Docker/CI stage ends normally and
\* the handler goes on with install and commit (it reaches the catch block
\* only if one of those throws). A failure of createRepository, travisEncrypt
\* or the node version lookup aborts the command: no later stage starts, the
\* success message is not printed.
C10_OnlyBuildEnablementIsNonFatal ==
    /\ enableResult \in {"false", "throw"} =>
        /\ "notice" \in out
        /\ stageStatus["docker"] = "ok"
        /\ remoteFailure = "none"
        /\ cPc \in {"install", "commit", "catch", "end"}
        /\ (cPc = "catch" \/ "error" \in out) =>
            (stageStatus["install"] = "threw" \/ stageStatus["commit"] = "threw")
        /\ (cPc = "end" /\ "error" \notin out) =>
            /\ "success" \in out
            /\ gitRepoInitialized => "git" \in Range(calls)
    /\ remoteFailure # "none" =>
        /\ remoteFailure \in {"createRepository", "travisEncrypt", "nodeVersion"}
        /\ cPc \in {"catch", "end"}
        /\ "success" \notin out
        /\ "npm" \notin Range(calls) /\ "git" \notin Range(calls)
        /\ stageStatus["install"] = "none" /\ stageStatus["commit"] = "none"
        /\ remoteFailure = "createRepository" =>
            (stageStatus["git"] = "threw" /\ stageStatus["docker"] = "none")
        /\ remoteFailure \in {"travisEncrypt", "nodeVersion"} =>
            stageStatus["docker"] = "threw"

\* C10 witness: enableBuilds threw, the notice was printed, and the packages
\* were installed and the service committed all the same.
C10_Witness ==
    /\ enableResult = "throw"
    /\ "notice" \in out
    /\ "npm" \in Range(calls) /\ "git" \in Range(calls)
    /\ "success" \in out

\* Entries of the listing that are a service.
ServiceEntries ==
    {i \in DOMAIN dEntries : IsFolderContainsService(dEntries[i]).ret}

\* C11: getServicesFolders returns exactly the root path when the root path
\* is a service; otherwise it returns exactly the entries below the root that
\* are a service by themselves, each once, in directory listing order.
C11_RootAloneOrServiceEntriesInOrder ==
    dPc = "returned" =>
        IF IsFolderContainsService(dRoot).ret
        THEN dFolders = <<RootPath>>
        ELSE /\ Range(dFolders) = ServiceEntries
             /\ \A a, b \in DOMAIN dFolders : a < b => dFolders[a] < dFolders[b]

\* C11 witness: the root is no service, and of the entries below it the one
\* that is a service is returned while the other is left out.
C11_Witness ==
    /\ dPc = "returned"
    /\ ~IsFolderContainsService(dRoot).ret
    /\ Len(dEntries) >= 2
    /\ dFolders # <<>>
    /\ Len(dFolders) < Len(dEntries)

RECURSIVE SubstituteAll(_, _, _, _)
\* Every occurrence of the pattern, left to right, gives way to the value
\* as it is written.
SubstituteAll(text, pattern, value, i) ==
    IF i > Len(text) THEN <<>>
    ELSE IF MatchesAt(text, pattern, i)
    THEN value \o SubstituteAll(text, pattern, value, i + Len(pattern))
    ELSE <<text[i]>> \o SubstituteAll(text, pattern, value, i + 1)

RECURSIVE SubstituteTags(_, _, _)
\* The tags applied one after another in insertion order.
SubstituteTags(text, tags, i) ==
    IF i > Len(tags) THEN text
    ELSE SubstituteTags(
            SubstituteAll(text, <<"%">> \o tags[i].name, tags[i].value, 1),
            tags, i + 1)

\* C12: compileTemplateFile replaces each occurrence of %TAGNAME in the text
\* with the tag's value, for every tag, one after another in insertion order.
C12_EveryOccurrenceReplacedByValueInOrder ==
    tplPc # "call" => tplOnce = SubstituteTags(tplText, tplTags, 1)

\* The text contains a %NAME token of the tags.
HasToken(text, tags) ==
    \E i \in DOMAIN tags, k \in DOMAIN text :
        MatchesAt(text, <<"%">> \o tags[i].name, k)

\* No tag value contains a %NAME token of the tags.
ValuesTokenFree == \A i \in DOMAIN tplTags : ~HasToken(tplTags[i].value, tplTags)

\* No tag value contains '%' or '$'.
ValuesPlain ==
    \A i \in DOMAIN tplTags : \A k \in DOMAIN tplTags[i].value :
        tplTags[i].value[k] \notin {"%", "$"}

\* Every '%' of the template text begins a %NAME token of the tags.
TextTokensOnly ==
    \A k \in DOMAIN tplText :
        tplText[k] = "%" =>
            \E i \in DOMAIN tplTags : MatchesAt(tplText, <<"%">> \o tplTags[i].name, k)

\* C13 as stated: a second pass with the same tags leaves once-substituted
\* text unchanged whenever no tag value contains a %NAME token of the tags.
C13_Original_SecondPassUnchangedWhenValuesTokenFree ==
    (tplPc = "twice" /\ ValuesTokenFree) => tplTwice = tplOnce

\* C13 amended: a second pass with the same tags leaves once-substituted
\* text unchanged whenever that text holds no %NAME token of the tags any
\* more, and it holds none when every '%' of the template begins a token and
\* no tag value contains '%' or '$'.
C13_SecondPassUnchangedWhenNoTokenLeft ==
    tplPc = "twice" =>
        /\ ~HasToken(tplOnce, tplTags) => tplTwice = tplOnce
        /\ (ValuesPlain /\ TextTokensOnly) => ~HasToken(tplOnce, tplTags)

\* C13 witness: two plain-valued tags, a template whose every '%' begins a
\* token, a first pass that substituted and a second pass that ran.
C13_Witness ==
    /\ tplPc = "twice"
    /\ Len(tplTags) = 2
    /\ ValuesPlain
    /\ TextTokensOnly
    /\ \E k \in DOMAIN tplText : tplText[k] = "%"
    /\ tplOnce # tplText
    /\ tplTwice = tplOnce

\* C13, second half: some tag value contains a token of the tags and the
\* second pass changed the text (the negation is violated: it can happen).
C13_SecondPassNeverChangesWhenValueHasToken ==
    (tplPc = "twice" /\ ~ValuesTokenFree) => tplTwice = tplOnce

RECURSIVE SameShape(_, _)
\* The two trees have the same files and directories under the same names.
SameShape(n, m) ==
    /\ n.kind = m.kind
    /\ n.kind = "dir" =>
        \A f \in FileNameSet : SameShape(n.entries[f], m.entries[f])

RECURSIVE Compiled(_, _, _)
\* Every regular file of tree n, at any depth, holds the compiled contents
\* of the file of tree m at the same place.
Compiled(n, m, tags) ==
    /\ n.kind = "file" => n.content = CompileTemplateFile(m.content, tags, 1)
    /\ n.kind = "dir" =>
        \A f \in FileNameSet : Compiled(n.entries[f], m.entries[f], tags)

RECURSIVE HasNestedFile(_, _)
\* The tree has a regular file inside a directory at depth d or deeper.
HasNestedFile(n, d) ==
    \/ n.kind = "file" /\ d <= 0
    \/ n.kind = "dir" /\ \E f \in FileNameSet : HasNestedFile(n.entries[f], d - 1)

\* C14: compileTemplate only overwrites file contents in place, so the set
\* of files and directories is the same before, during and after; when it is
\* done every regular file at any depth holds its compiled contents.
C14_EveryFileCompiledTreeUnchanged ==
    fsTree0.kind = "dir" =>
        /\ SameShape(fsTree, fsTree0)
        /\ wPending = <<>> => Compiled(fsTree, fsTree0, wTags)

\* C14 witness: the walk is done on a tree with a file at the top and one
\* inside a subdirectory, and file contents were rewritten.
C14_Witness ==
    /\ fsTree0.kind = "dir"
    /\ wPending = <<>>
    /\ \E f \in FileNameSet : fsTree0.entries[f].kind = "file"
    /\ HasNestedFile(fsTree0, 2)
    /\ fsTree # fsTree0

\* The first occurrence of the pattern gives way to the value as it is
\* written; further occurrences stay.
SubstituteFirst(text, pattern, value) ==
    LET i == IndexOf(text, pattern)
    IN  IF i = 0 THEN text
        ELSE Slice(text, 1, i - 1) \o value
             \o Slice(text, i + Len(pattern), Len(text))

RECURSIVE SubstituteVars(_, _, _)
\* The five placeholders treated one after another, in the order of the keys.
SubstituteVars(text, values, i) ==
    IF i > Len(VarNames) THEN text
    ELSE SubstituteVars(
            SubstituteFirst(text, Placeholder(VarNames[i]), values[VarNames[i]]),
            values, i + 1)

\* C15: updateLicenseText substitutes [year], [fullname], [email], [project]
\* and [project_url]; per key only the first occurrence is replaced, by the
\* supplied value, and further occurrences are left unchanged.
C15_FirstOccurrenceReplacedBySuppliedValue ==
    ltPc = "returned" => ltResult = SubstituteVars(ltText, ltValues, 1)

\* ensureLicense was called with 'UNLICENSED' and is past its first if.
UnlicensedCallDecided ==
    /\ elPc \in {"resolve", "returned", "threw"}
    /\ elArgs.license = "UNLICENSED"

\* C16: ensureLicense called with 'UNLICENSED' prompts exactly when
\* config.license is undefined and never when a config default exists; when
\* the resulting license is still 'UNLICENSED' the text and header returned
\* are the proprietary notice and the tag and name are 'UNLICENSED'.
C16_PromptIffNoConfigDefaultAndUnlicensedNotice ==
    /\ UnlicensedCallDecided => (elPrompted <=> elConfig = "undef")
    /\ (elPc # "idle" /\ elConfig # "undef") => ~elPrompted /\ elPc # "prompt"
    /\ (UnlicensedCallDecided /\ elPc = "returned" /\ elLicense = "UNLICENSED") =>
        /\ elResult.text = UnlicensedText(elArgs.author, elArgs.email)
        /\ elResult.header = UnlicensedHeader(elArgs.author, elArgs.email)
        /\ elResult.tag = "UNLICENSED"
        /\ elResult.name = "UNLICENSED"

\* C16 witness: called with 'UNLICENSED' and no config default, the user was
\* prompted, picked 'UNLICENSED' again, and the notice was returned.
C16_Witness ==
    /\ UnlicensedCallDecided
    /\ elPc = "returned"
    /\ elConfig = "undef"
    /\ elPrompted
    /\ elLicense = "UNLICENSED"
    /\ elResult.name = "UNLICENSED"

\* "2.0.0", "1.9.9" and "1.0.0"
V200 == [core |-> [major |-> 2, minor |-> 0, patch |-> 0], pre |-> <<>>, build |-> ""]
V199 == [core |-> [major |-> 1, minor |-> 9, patch |-> 9], pre |-> <<>>, build |-> ""]
V100 == [core |-> [major |-> 1, minor |-> 0, patch |-> 0], pre |-> <<>>, build |-> ""]

\* Version a comes before version b in semantic-version precedence at the
\* first of major, minor and patch that differs, or as a prerelease of b.
ClearlyLower(a, b) ==
    \/ a.core.major < b.core.major
    \/ a.core.major = b.core.major /\ a.core.minor < b.core.minor
    \/ /\ a.core.major = b.core.major /\ a.core.minor = b.core.minor
       /\ a.core.patch < b.core.patch
    \/ a.core = b.core /\ a.pre # <<>> /\ b.pre = <<>>

\* C17: semverCompare is a strict total order consistent with semver
\* precedence, for a descending sort: -1 when a is higher than b, 1 when
\* lower, 0 when equal; semverCompare(a,b) = -semverCompare(b,a); transitive;
\* semverCompare("2.0.0","1.9.9") = -1 and semverCompare("1.0.0","1.0.0") = 0.
C17_SemverCompareIsDescendingTotalOrder ==
    svPc = "returned" =>
        /\ svResult.ab \in {0 - 1, 0, 1}
        /\ svResult.ab = 0 - svResult.ba
        /\ (svResult.ab = 0) <=> (svA.core = svB.core /\ svA.pre = svB.pre)
        /\ (svResult.ab <= 0 /\ svResult.bc <= 0) => svResult.ac <= 0
        /\ (svResult.ab = 0 - 1 /\ svResult.bc <= 0) => svResult.ac = 0 - 1
        /\ ClearlyLower(svB, svA) => svResult.ab = 0 - 1
        /\ ClearlyLower(svA, svB) => svResult.ab = 1
        /\ (svA = V200 /\ svB = V199) => svResult.ab = 0 - 1
        /\ (svA = V100 /\ svB = V100) => svResult.ab = 0

\* C17 witness: "2.0.0" over "1.9.9" over a prerelease of it were compared.
C17_Witness ==
    /\ svPc = "returned"
    /\ svA = V200
    /\ svB = V199
    /\ svC.core = svB.core /\ svC.pre # <<>>
    /\ svResult = [ab |-> 0 - 1, ba |-> 1, bc |-> 0 - 1, ac |-> 0 - 1]

\* The entries of the fetched index a tag is about: all of them, or those
\* with a truthy lts.
Candidates(tag) ==
    {e \in Range(nvFetched) :
        tag.name \in {"stable", "lts", "lts/*"} => e.lts # "false"}

\* C18: nodeVersion('latest') and ('node') return the version of highest
\* precedence in the fetched catalog, nodeVersion('lts'), ('stable') and
\* ('lts/*') the highest one whose lts is truthy; the leading 'v' is removed,
\* and the result is '' when no entry matches.
C18_HighestVersionOrHighestLts ==
    (/\ nvPc = "returned"
     /\ nvCall.fn = "nodeVersion"
     /\ nvCall.tag.name # "version") =>
        IF Candidates(nvCall.tag) = {} THEN nvReturn = <<>>
        ELSE /\ Len(nvReturn) = 1
             /\ ~nvReturn[1].v
             /\ \E e \in Candidates(nvCall.tag) :
                    /\ nvReturn[1] = VersionClean(e.version)
                    /\ \A o \in Candidates(nvCall.tag) :
                        SemverCompareTo(VersionClean(o.version),
                                        VersionClean(e.version)) <= 0

\* C18 witness: nodeVersion('lts') returned a version that is not the highest
\* of the catalog, which the server had sent lowest first.
C18_Witness ==
    /\ nvPc = "returned"
    /\ nvCall.fn = "nodeVersion"
    /\ nvCall.tag.name = "lts"
    /\ Len(nvFetched) = 2
    /\ nvReturn = <<VersionClean(nvFetched[1].version)>>
    /\ SemverCompareTo(nvFetched[1].version, nvFetched[2].version) < 0

\* The Travis tag of a node tag.
TravisTagOf(tag) ==
    IF tag \in {"stable", "lts"} THEN "lts/*"
    ELSE IF tag = "latest" THEN "node"
    ELSE tag

\* C19: toTravisTags converts each tag to its Travis tag ('stable' and 'lts'
\* to 'lts/*', 'latest' to 'node', any other to itself) and returns the
\* converted tags without duplicates in first-seen order; ["stable","latest"]
\* gives ["lts/*","node"]; an empty or missing input gives the empty list.
C19_ConvertedTagsWithoutDuplicates ==
    ttPc = "returned" =>
        LET tags == IF ttTags.list = <<"">> THEN <<>> ELSE ttTags.list
            converted == [i \in DOMAIN tags |-> TravisTagOf(tags[i])]
        IN  ttResult = FilterFirst(converted, 1)

\* A call without force starts while the cache holds a fetched catalog.
NonForcedCallOnCache ==
    /\ nvCalls' = nvCalls + 1
    /\ ~nvCall'.force
    /\ nodeVersions.defined

\* C20: once a fetch has succeeded, every later getNodeVersions call without
\* force returns the cached catalog and issues no request; calls without
\* force set the cache at most once and nothing unsets or, short of a
\* successful fetch, changes it; a failed fetch leaves the cache as it was.
C20_CacheSetOnceThenOnlyRead ==
    [][/\ NonForcedCallOnCache =>
            /\ nvRequests' = nvRequests
            /\ nodeVersions' = nodeVersions
            /\ nvPc' = "resolved"
            /\ nvVersions' = nodeVersions.list
       /\ nvPc' \in {"rejected", "thrown", "failed"} =>
            nodeVersions' = nodeVersions
       /\ nodeVersions.defined => nodeVersions'.defined
       /\ nodeVersions' # nodeVersions =>
            (nvPc = "fetching" /\ nvPc' = "resolved")
       /\ nvSets' <= 1]_vars

\* C20 witness: a first call fetched the catalog, a later call without force
\* was answered from the cache, and a third call's fetch has failed.
C20_Witness ==
    /\ nvPc = "failed"
    /\ nvCalls = 3
    /\ nvRequests = 2
    /\ nvSets = 1
    /\ nodeVersions.defined
    /\ nodeVersions.list # <<>>
\* The walk over the discovered directories has ended.
WalkEnded == uvPc \in {"done", "caught"}

\* C21: in execGitFlow a step whose process did not exit with status 0, a
\* null status (killed by a signal, not spawned) included, is the last step
\* run for its directory, and it does not keep the remaining discovered
\* directories from being processed.
C21_NoStepAfterNonZeroOrNullStatus ==
    /\ \A i \in DOMAIN log : \A k \in DOMAIN log[i] :
        log[i][k].status # 0 => k = Len(log[i])
    /\ WalkEnded => \A i \in DOMAIN folders : Len(log[i]) >= 1
\* C22: in a run of `create`, the git commit/push and the encryption of the
\* Travis secrets happen only after createRepository succeeded in that run:
\* gitRepoInitialized starts false, becomes true only directly after a
\* successful createRepository call, never goes back to false, and commit
\* and dockerization both require it.
C22_CommitAndEncryptOnlyAfterRepositoryCreated ==
    /\ []("createRepository" \notin Range(calls) => ~gitRepoInitialized)
    /\ []((\/ "git" \in Range(calls)
           \/ "travisEncrypt" \in Range(calls)
           \/ dockerize) => gitRepoInitialized)
    /\ [][/\ gitRepoInitialized => gitRepoInitialized'
          /\ (~gitRepoInitialized /\ gitRepoInitialized') =>
                /\ calls' = Append(calls, "createRepository")
                /\ remoteFailure' = remoteFailure
                /\ stageStatus'["git"] = "ok"]_vars

\* C22 witness: a run that created the repository, encrypted the secrets
\* and committed.
C22_Witness ==
    /\ cPc = "end"
    /\ gitRepoInitialized
    /\ dockerize
    /\ "travisEncrypt" \in Range(calls)
    /\ "git" \in Range(calls)
\* Number of begin markers of the program in an rc text.
CompletionBlocks(text) ==
    Cardinality({k \in DOMAIN text : MatchesAt(text, BeginMarker(PROGRAM), k)})

\* C23: `completions on` is idempotent on the rc file: the script is
\* appended only when the rc file does not yet contain the program's begin
\* marker, so after any number of runs the rc file contains exactly one
\* completion block, and a run that finds the marker leaves it unchanged.
C23_ExactlyOneCompletionBlockAfterRuns ==
    /\ [](\A f \in DOMAIN coRuns :
            coRuns[f] >= 1 =>
                rcFiles[f].exists /\ CompletionBlocks(rcFiles[f].text) = 1)
    /\ [][\A f \in DOMAIN coRuns :
            (coRuns'[f] # coRuns[f] /\ CompletionBlocks(rcFiles[f].text) >= 1)
                => rcFiles'[f] = rcFiles[f]]_vars
====
